---- MODULE Spec2Model ----
(***************************************************************************)
(* Zonal-statistics pipeline of gdal-common-python: the feature window     *)
(* locator (lib/extract.py getFeatureToRasterWindow), the raster window    *)
(* read (rasters.py readRaster), the masked pixel extractor                *)
(* (lib/extract.py getPixelsByMaskArray), the statistics aggregator        *)
(* (lib/zonal.py _stats) and the zonal driver (lib/zonal.py statistics).   *)
(*                                                                         *)
(* Coordinates and pixel sizes are integers, so that every quotient the    *)
(* code takes is an exact rational; int() is truncation toward zero and %  *)
(* is Python's modulo (the result has the sign of the divisor).            *)
(***************************************************************************)
EXTENDS Integers, Sequences, FiniteSets, TLC

VARIABLES locator, extractor, aggregator, driver, rasterizer, writer, dissolver,
          joiner

vars == <<locator, extractor, aggregator, driver, rasterizer, writer, dissolver, joiner>>

\* Python's None where a pair or a list is expected.
None == <<>>

----------------------------------------------------------------------------
(* Python arithmetic *)

Abs(a) == IF a < 0 THEN -a ELSE a

\* math.floor(a / b), b # 0
FloorDiv(a, b) == IF b > 0 THEN a \div b ELSE (-a) \div (-b)

\* a % b with Python's sign convention: a - b * floor(a / b)
PyMod(a, b) == a - b * FloorDiv(a, b)

\* int(a / b): true division, then truncation toward zero
IntDiv(a, b) ==
    LET q == Abs(a) \div Abs(b)
    IN  IF (a < 0) = (b < 0) THEN q ELSE -q

\* math.ceil(a / b), b > 0
CeilDiv(a, b) == -((-a) \div b)

----------------------------------------------------------------------------
(* Bounds of the window locator's inputs *)

\* envelope coordinates range over -MaxCoord .. MaxCoord
MaxCoord == 5

\* pixel sizes are 2 .. MaxPixel: x positive, y of either sign
MaxPixel == 3
PixelSizesX == 2 .. MaxPixel
PixelSizesY == {-p : p \in 2 .. MaxPixel} \cup (2 .. MaxPixel)

\* raster width and height are 1 .. MaxDim pixels
MaxDim == 2
RasterDims == 1 .. MaxDim

\* the rasters' origin (geo_transform[0], geo_transform[3])
Origin == <<1, 1>>

Coords == -MaxCoord .. MaxCoord

\* RasterGrid: what getRasterTransform returns for a dataset
RasterGrids ==
    [origin : {Origin}, pixel_size : PixelSizesX \X PixelSizesY,
     width : RasterDims, height : RasterDims]

\* (xmin, xmax, ymin, ymax) of a geometry's envelope
Envelopes ==
    {e \in [xmin : Coords, xmax : Coords, ymin : Coords, ymax : Coords] :
        e.xmin <= e.xmax /\ e.ymin <= e.ymax}

----------------------------------------------------------------------------
(* rasters.py *)

getRasterTransform(dataset) ==
    <<dataset.origin, dataset.pixel_size, <<dataset.width, dataset.height>>>>

calcPixelCoordinate(coordinate, origin, pixel_size) ==
    <<IntDiv(coordinate[1] - origin[1], pixel_size[1]),
      IntDiv(coordinate[2] - origin[2], pixel_size[2])>>

\* readRaster's argument checks: "ok" when ReadAsArray is reached, otherwise
\* the exception raised.  The band has the dataset's width and height.
readRaster(dataset, offset_x, offset_y, length_x, length_y) ==
    LET width  == dataset.width
        height == dataset.height
    IN  IF offset_x > width \/ offset_x < 0
          THEN "Offset (x) is greater than band width or negative"
        ELSE IF offset_y > height \/ offset_y < 0
          THEN "Offset (y) is greater than band height or negative"
        ELSE IF length_x < 0
          THEN "Read length (x) cannot be negative"
        ELSE IF length_x # 0 /\ offset_x + length_x > width
          THEN "Offset plus length (x) is greater than band width"
        ELSE IF length_y < 0
          THEN "Read length (y) cannot be negative"
        ELSE IF length_y # 0 /\ offset_y + length_y > height
          THEN "Offset plus length (y) is greater than band height"
        ELSE "ok"

\* read_band.ReadAsArray(offset_x, offset_y, length_x, length_y): the rows of
\* the window, arr[y][x]; a length of 0 reads to the band's far edge
ReadAsArray(dataset, band, offset_x, offset_y, length_x, length_y) ==
    LET lx == IF length_x = 0 THEN dataset.width - offset_x ELSE length_x
        ly == IF length_y = 0 THEN dataset.height - offset_y ELSE length_y
    IN  [y \in 1 .. ly |->
            [x \in 1 .. lx |-> dataset.bands[band][offset_y + y][offset_x + x]]]

----------------------------------------------------------------------------
(* lib/extract.py getFeatureToRasterWindow *)

NullWindow ==
    [origin |-> None, resolution |-> None, offset |-> None, pixel_size |-> None]

IsNull(w) == w.origin = None

\* lines 181-184: adjust extent to fit within raster
ClampResolutionMissing(res, off, size) == res

ClampResolution(res, off, size) ==
    IF off + res > size THEN size - off ELSE res

\* lines 149-155: snap x-origin to raster grid and crop to minimum corner
SnapX(xmin, origin_x, px) ==
    IF xmin < origin_x THEN origin_x
    ELSE xmin - PyMod(xmin - origin_x, px)

\* lines 157-168: the y edge the window starts from; ymax when the y pixel
\* size is negative, ymin otherwise (the other edge is left as given)
SnapY(ymin, ymax, origin_y, py) ==
    IF py < 0
      THEN [ymin |-> ymin,
            ymax |-> IF ymax > origin_y THEN origin_y
                     ELSE ymax - PyMod(origin_y - ymax, py)]
      ELSE [ymin |-> IF ymax < origin_y THEN origin_y
                     ELSE ymin - PyMod(ymin - origin_y, py),
            ymax |-> ymax]

getFeatureToRasterWindow(raster, env) ==
    LET t          == getRasterTransform(raster)
        origin     == t[1]
        pixel_size == t[2]
        XSize      == t[3][1]
        YSize      == t[3][2]
        xmin       == SnapX(env.xmin, origin[1], pixel_size[1])
        xmax       == env.xmax
        y          == SnapY(env.ymin, env.ymax, origin[2], pixel_size[2])
        xoffset    == IntDiv(xmin - origin[1], pixel_size[1])
        yoffset    == IF pixel_size[2] < 0
                        THEN IntDiv(y.ymax - origin[2], pixel_size[2])
                        ELSE IntDiv(y.ymin - origin[2], pixel_size[2])
        res0x      == IntDiv(xmax - xmin, pixel_size[1])
        res0y      == LET r == IntDiv(y.ymax - y.ymin, pixel_size[2])
                      IN  IF pixel_size[2] < 0 THEN -r ELSE r
        resx       == ClampResolution(res0x, xoffset, XSize)
        resy       == ClampResolution(res0y, yoffset, YSize)
    IN  IF xoffset > XSize \/ yoffset > YSize THEN NullWindow
        ELSE IF resx <= 0 \/ resy <= 0 THEN NullWindow
        ELSE [origin     |-> <<xmin, IF pixel_size[2] < 0 THEN y.ymax ELSE y.ymin>>,
              resolution |-> <<resx, resy>>,
              offset     |-> <<xoffset, yoffset>>,
              pixel_size |-> pixel_size]

----------------------------------------------------------------------------
(* The locator on its own: a raster, a feature envelope, the window found   *)
(* for them and the outcome of the readRaster call getPixelsByMaskArray     *)
(* makes with that window.                                                  *)

\* a component no call is made to
Idle == [pc |-> "idle"]

LocatorInit ==
    /\ locator \in [pc : {"call"}, raster : RasterGrids, envelope : Envelopes]
    /\ extractor = Idle
    /\ aggregator = Idle
    /\ driver = Idle
    /\ rasterizer = Idle
    /\ writer = Idle
    /\ dissolver = Idle
    /\ joiner = Idle

\* getFeatureToRasterWindow(raster, feature)
Locate ==
    /\ locator.pc = "call"
    /\ locator' = [pc       |-> "located",
                   raster   |-> locator.raster,
                   envelope |-> locator.envelope,
                   window   |-> getFeatureToRasterWindow(locator.raster, locator.envelope)]
    /\ UNCHANGED <<extractor, aggregator, driver, rasterizer,
                   writer, dissolver, joiner>>

\* getPixelsByFeatureMask line 90: a null window reads nothing
SkipRead ==
    /\ locator.pc = "located"
    /\ IsNull(locator.window)
    /\ locator' = [locator EXCEPT !.pc = "empty"]
    /\ UNCHANGED <<extractor, aggregator, driver, rasterizer,
                   writer, dissolver, joiner>>

\* getPixelsByMaskArray line 115: readRaster on the window
ReadWindow ==
    /\ locator.pc = "located"
    /\ ~IsNull(locator.window)
    /\ LET w == locator.window
           r == readRaster(locator.raster, w.offset[1], w.offset[2],
                           w.resolution[1], w.resolution[2])
       IN  locator' = [pc       |-> IF r = "ok" THEN "read" ELSE "raised",
                       raster   |-> locator.raster,
                       envelope |-> locator.envelope,
                       window   |-> w,
                       error    |-> r]
    /\ UNCHANGED <<extractor, aggregator, driver, rasterizer,
                   writer, dissolver, joiner>>

LocatorNext == Locate \/ SkipRead \/ ReadWindow

SpecWindow == LocatorInit /\ [][LocatorNext]_vars

----------------------------------------------------------------------------
(* Geometry the claims about the locator are stated in *)

HasWindow == locator.pc \in {"located", "empty", "read", "raised"}

\* the raster's extent in real coordinates
Left(r)   == r.origin[1]
Right(r)  == r.origin[1] + r.width * r.pixel_size[1]
Bottom(r) == IF r.pixel_size[2] < 0 THEN r.origin[2] + r.height * r.pixel_size[2]
             ELSE r.origin[2]
Top(r)    == IF r.pixel_size[2] < 0 THEN r.origin[2]
             ELSE r.origin[2] + r.height * r.pixel_size[2]

EntirelyOutside(r, e) ==
    \/ e.xmax < Left(r)
    \/ e.xmin > Right(r)
    \/ e.ymax < Bottom(r)
    \/ e.ymin > Top(r)

Min(a, b) == IF a < b THEN a ELSE b
Max(a, b) == IF a > b THEN a ELSE b

\* the envelope and the raster's extent share a region of positive area
Overlaps(r, e) ==
    /\ Max(e.xmin, Left(r)) < Min(e.xmax, Right(r))
    /\ Max(e.ymin, Bottom(r)) < Min(e.ymax, Top(r))

Inside(r, e) ==
    /\ Left(r) <= e.xmin /\ e.xmax <= Right(r)
    /\ Bottom(r) <= e.ymin /\ e.ymax <= Top(r)

PartiallyOverlaps(r, e) == Overlaps(r, e) /\ ~Inside(r, e)

\* pixel (i, j) of the raster, 0-based, shares positive area with the envelope
PixelOverlaps(r, e, i, j) ==
    LET x0 == r.origin[1] + i * r.pixel_size[1]
        x1 == r.origin[1] + (i + 1) * r.pixel_size[1]
        y0 == r.origin[2] + j * r.pixel_size[2]
        y1 == r.origin[2] + (j + 1) * r.pixel_size[2]
    IN  /\ Max(e.xmin, Min(x0, x1)) < Min(e.xmax, Max(x0, x1))
        /\ Max(e.ymin, Min(y0, y1)) < Min(e.ymax, Max(y0, y1))

\* C1: a feature envelope entirely outside the raster's extent gets the
\* all-None window from getFeatureToRasterWindow.
C1_OutsideIsNull ==
    (HasWindow /\ EntirelyOutside(locator.raster, locator.envelope))
        => IsNull(locator.window)

\* C5: every non-null window has a positive resolution and ends inside the
\* raster: offset + resolution <= width and height.
C5_ClampingInvariant ==
    (HasWindow /\ ~IsNull(locator.window)) =>
        LET w == locator.window
        IN  /\ w.resolution[1] > 0
            /\ w.resolution[2] > 0
            /\ w.offset[1] + w.resolution[1] <= locator.raster.width
            /\ w.offset[2] + w.resolution[2] <= locator.raster.height

\* C5 witness: a window the clamp cut on both axes (the envelope reaches
\* a pixel or more beyond the raster's far edges) and that ends exactly at the raster's edge.
C5_Witness ==
    /\ HasWindow
    /\ ~IsNull(locator.window)
    /\ Overlaps(locator.raster, locator.envelope)
    /\ locator.envelope.xmax >= Right(locator.raster) + locator.raster.pixel_size[1]
    /\ locator.envelope.ymin <= Bottom(locator.raster) + locator.raster.pixel_size[2]
    /\ locator.raster.pixel_size[2] < 0
    /\ locator.window.offset[1] + locator.window.resolution[1] = locator.raster.width
    /\ locator.window.offset[2] + locator.window.resolution[2] = locator.raster.height

\* C6: for an envelope that partially overlaps the raster, a non-null window
\* has offsets >= 0 and the readRaster call on it raises nothing.
C6_PartialOverlapReadable ==
    (HasWindow /\ ~IsNull(locator.window)
        /\ PartiallyOverlaps(locator.raster, locator.envelope)) =>
        /\ locator.window.offset[1] >= 0
        /\ locator.window.offset[2] >= 0
        /\ locator.pc # "raised"

\* C7: a non-null window's origin is the raster's origin plus offset times
\* pixel size, on both axes.
C7_OriginSnapped ==
    (HasWindow /\ ~IsNull(locator.window)) =>
        LET w == locator.window
            r == locator.raster
        IN  /\ w.origin[1] = r.origin[1] + w.offset[1] * r.pixel_size[1]
            /\ w.origin[2] = r.origin[2] + w.offset[2] * r.pixel_size[2]

\* the coordinate c lies in the n pixels of size px that start at origin o
\* (the origin's edge included, the far edge not)
InSpan(c, o, px, n) ==
    IF px > 0 THEN o <= c /\ c < o + n * px
    ELSE o + n * px < c /\ c <= o

\* the point p lies inside the window w
InsideWindow(p, w) ==
    /\ InSpan(p[1], w.origin[1], w.pixel_size[1], w.resolution[1])
    /\ InSpan(p[2], w.origin[2], w.pixel_size[2], w.resolution[2])

\* C26: for every point inside a non-null window, the pixel of the point in
\* the raster (calcPixelCoordinate with the raster's origin) is the window's
\* offset plus the pixel of the point in the mask (calcPixelCoordinate with
\* the window's origin), on both axes.
C26_MaskAligned ==
    (HasWindow /\ ~IsNull(locator.window)) =>
        \A p \in Coords \X Coords :
            InsideWindow(p, locator.window) =>
                LET w == locator.window
                    inRaster == calcPixelCoordinate(p, locator.raster.origin,
                                                    locator.raster.pixel_size)
                    inMask   == calcPixelCoordinate(p, w.origin, w.pixel_size)
                IN  /\ inRaster[1] = w.offset[1] + inMask[1]
                    /\ inRaster[2] = w.offset[2] + inMask[2]

\* C8: every pixel of the raster whose cell shares positive area with the
\* envelope lies in [offset, offset + resolution) of the window on both axes.
C8_WindowCoversEnvelope ==
    HasWindow =>
        \A i \in 0 .. locator.raster.width - 1, j \in 0 .. locator.raster.height - 1 :
            PixelOverlaps(locator.raster, locator.envelope, i, j) =>
                /\ ~IsNull(locator.window)
                /\ LET w == locator.window
                   IN  /\ w.offset[1] <= i /\ i < w.offset[1] + w.resolution[1]
                       /\ w.offset[2] <= j /\ j < w.offset[2] + w.resolution[2]

----------------------------------------------------------------------------
(* lib/extract.py getPixelsByMaskArray *)

\* mask width and height are 1 .. MaxRes cells
MaxRes == 2

\* Raster datasets with pixel data: bands[b][row][column].  0 is the value
\* the bands declare as no-data.
RasterA ==
    [origin |-> Origin, pixel_size |-> <<2, -2>>, width |-> 3, height |-> 2,
     bands |-> << << <<0, 1, 2>>, <<3, 0, 1>> >>,
                  << <<5, 5, 0>>, <<0, 4, 4>> >> >>]

RasterB ==
    [origin |-> Origin, pixel_size |-> <<2, -2>>, width |-> 3, height |-> 2,
     bands |-> << << <<2, 2, 0>>, <<1, 0, 3>> >>,
                  << <<0, 0, 0>>, <<1, 1, 1>> >> >>]

\* ignore_values: None, a list of values, or a callback returning True for
\* the values in `ignores`
IgnoreNone == [kind |-> "None"]
IgnoreList(l) == [kind |-> "list", values |-> l]
IgnoreCallable(S) == [kind |-> "callable", ignores |-> S]

IgnoreSpecs ==
    {IgnoreNone, IgnoreList(<<>>), IgnoreList(<<0>>), IgnoreList(<<0, 1>>),
     IgnoreCallable({0}), IgnoreCallable({})}

\* bool(ignore_values)
Truthy(ignore_values) ==
    \/ ignore_values.kind = "callable"
    \/ ignore_values.kind = "list" /\ Len(ignore_values.values) > 0

\* lines 124-129: whether the value v under a mask cell is appended
RetainedAll(v, ignore_values) == TRUE

Retained(v, ignore_values) ==
    IF Truthy(ignore_values)
      THEN IF ignore_values.kind = "callable"
             THEN v \notin ignore_values.ignores
             ELSE \A k \in 1 .. Len(ignore_values.values) : ignore_values.values[k] # v
      ELSE FALSE

\* lines 119-129: the loop by lines then pixels, from cell number k (row-major,
\* 0-based) on
RECURSIVE CollectFrom(_, _, _, _, _)
CollectFrom(k, pixels, mask, resolution, ignore_values) ==
    IF k >= resolution[1] * resolution[2] THEN <<>>
    ELSE LET y == (k \div resolution[1]) + 1
             x == (k % resolution[1]) + 1
             rest == CollectFrom(k + 1, pixels, mask, resolution, ignore_values)
         IN  IF mask[y][x] > 0 /\ Retained(pixels[y][x], ignore_values)
               THEN <<pixels[y][x]>> \o rest
               ELSE rest

\* [error |-> message] when readRaster raises, [values |-> list] otherwise
getPixelsByMaskArray(raster, band, mask, offset, resolution, ignore_values) ==
    IF raster.kind = "None" \/ mask = None \/ offset = None
      THEN [values |-> <<>>]
    ELSE LET res == IF resolution = None THEN <<Len(mask[1]), Len(mask)>>
                    ELSE resolution
             chk == readRaster(raster.dataset, offset[1], offset[2], res[1], res[2])
         IN  IF chk # "ok" THEN [error |-> chk]
             ELSE [values |->
                     CollectFrom(0,
                         ReadAsArray(raster.dataset, band, offset[1], offset[2],
                                     res[1], res[2]),
                         mask, res, ignore_values)]

NoRaster == [kind |-> "None"]
Raster(d) == [kind |-> "Dataset", dataset |-> d]

\* presence masks of shape [h][w]
Masks(w, h) == [1 .. h -> [1 .. w -> {0, 1}]]

ExtractorInit ==
    /\ \E w \in 1 .. MaxRes, h \in 1 .. MaxRes :
          extractor \in
              [pc : {"call"}, raster : {Raster(RasterA), Raster(RasterB)},
               band : {1, 2}, mask : Masks(w, h),
               offset : (0 .. 1) \X (0 .. 1),
               resolution : {<<w, h>>, None},
               ignore_values : IgnoreSpecs]
    /\ locator = Idle
    /\ aggregator = Idle
    /\ driver = Idle
    /\ rasterizer = Idle
    /\ writer = Idle
    /\ dissolver = Idle
    /\ joiner = Idle

\* getPixelsByMaskArray(raster, band, mask, offset, resolution, ignore_values)
GetPixelsByMaskArray ==
    /\ extractor.pc = "call"
    /\ LET r == getPixelsByMaskArray(extractor.raster, extractor.band, extractor.mask,
                                     extractor.offset, extractor.resolution,
                                     extractor.ignore_values)
       IN  extractor' =
             IF "error" \in DOMAIN r
               THEN [extractor EXCEPT !.pc = "raised"] @@ [error |-> r.error]
               ELSE [extractor EXCEPT !.pc = "returned"] @@ [values |-> r.values]
    /\ UNCHANGED <<locator, aggregator, driver, rasterizer,
                   writer, dissolver, joiner>>

ExtractorNext == GetPixelsByMaskArray

SpecMask == ExtractorInit /\ [][ExtractorNext]_vars

\* the raster values under the non-zero cells of the mask, row-major
RECURSIVE UnderMaskFrom(_, _, _, _)
UnderMaskFrom(k, pixels, mask, resolution) ==
    IF k >= resolution[1] * resolution[2] THEN <<>>
    ELSE LET y == (k \div resolution[1]) + 1
             x == (k % resolution[1]) + 1
         IN  (IF mask[y][x] # 0 THEN <<pixels[y][x]>> ELSE <<>>)
                 \o UnderMaskFrom(k + 1, pixels, mask, resolution)

ExtractorWindow ==
    LET res == <<Len(extractor.mask[1]), Len(extractor.mask)>>
    IN  ReadAsArray(extractor.raster.dataset, extractor.band,
                    extractor.offset[1], extractor.offset[2], res[1], res[2])

\* C2: with ignore_values None or empty, getPixelsByMaskArray returns the
\* raster value of every cell whose mask value is non-zero, no-data included.
C2_NoIgnoreRetainsAll ==
    (extractor.pc = "returned" /\ ~Truthy(extractor.ignore_values)) =>
        extractor.values =
            UnderMaskFrom(0, ExtractorWindow, extractor.mask,
                          <<Len(extractor.mask[1]), Len(extractor.mask)>>)

\* the values an ignore specification excludes
Ignored(ignore_values) ==
    IF ignore_values.kind = "callable" THEN ignore_values.ignores
    ELSE {ignore_values.values[k] : k \in 1 .. Len(ignore_values.values)}

\* a list without the values in S, order kept
RECURSIVE Without(_, _)
Without(list, S) ==
    IF list = <<>> THEN <<>>
    ELSE (IF Head(list) \in S THEN <<>> ELSE <<Head(list)>>) \o Without(Tail(list), S)

\* C22: with a non-empty ignore set or an ignore predicate, getPixelsByMaskArray
\* returns exactly the raster values under non-zero mask cells that the set
\* does not hold, resp. the predicate does not flag; cells with mask 0 give
\* no value.
C22_IgnoreFilters ==
    (extractor.pc = "returned" /\ Truthy(extractor.ignore_values)) =>
        extractor.values =
            Without(UnderMaskFrom(0, ExtractorWindow, extractor.mask,
                                  <<Len(extractor.mask[1]), Len(extractor.mask)>>),
                    Ignored(extractor.ignore_values))

\* C22 witness: a 2 x 2 mask with one cell 0 over the values 0, 1, 3, 0 of
\* RasterA's band 1, with the ignore list [0, 1]: only the 3 is returned
\* (the 1 is under the 0 cell or ignored, the zeros are ignored).
C22_Witness ==
    /\ extractor.pc = "returned"
    /\ extractor.raster = Raster(RasterA)
    /\ extractor.band = 1
    /\ extractor.offset = <<0, 0>>
    /\ extractor.mask = << <<1, 0>>, <<1, 1>> >>
    /\ extractor.ignore_values = IgnoreList(<<0, 1>>)
    /\ extractor.values = <<3>>

----------------------------------------------------------------------------
(* lib/zonal.py _stats *)

\* pixel samples hold at most MaxLen values
MaxLen == 5

PixelValues == {0, 1, 2}

RECURSIVE SeqsUpTo(_, _)
SeqsUpTo(S, n) ==
    IF n = 0 THEN {<<>>}
    ELSE LET shorter == SeqsUpTo(S, n - 1)
         IN  shorter \cup {Append(q, v) : q \in {t \in shorter : Len(t) = n - 1}, v \in S}

\* longer samples, where the 90th percentile is not the maximum: LongLen and
\* LongLen + 1 values, all 0 but one 1 and one 2 at any two positions
LongLen == 10

LongLists ==
    {[i \in 1 .. n |-> IF i = a THEN 2 ELSE IF i = b THEN 1 ELSE 0] :
        a \in 1 .. LongLen, b \in 1 .. LongLen, n \in LongLen .. LongLen + 1}

PixelLists == SeqsUpTo(PixelValues, MaxLen) \cup LongLists

\* the names a caller may pass in `statistics`: recognized names and aliases
\* in several letter cases, and two names _stats does not know
OptionNames ==
    {"MIN", "minimum", "Max", "MAXIMUM", "mean", "AVERAGE", "Avg", "Median",
     "MEDIAN", "VAR", "variance", "stdev", "PERC90", "COUNT", "mode"}

\* the default of the `statistics` and `options` parameters
DefaultOptions == <<"MIN", "MAX", "MEAN", "MEDIAN", "VARIANCE", "STDEV", "PERC90">>

\* lists of one or two names, and the default list
OptionLists ==
    {<<a>> : a \in OptionNames} \cup {<<a, b>> : a, b \in OptionNames}
        \cup {DefaultOptions}

\* str.upper() on the names above (already upper-case names are unchanged)
UpperMissing(name) == name

Upper(name) ==
    CASE name = "minimum"  -> "MINIMUM"
      [] name = "Max"      -> "MAX"
      [] name = "mean"     -> "MEAN"
      [] name = "Avg"      -> "AVG"
      [] name = "Median"   -> "MEDIAN"
      [] name = "variance" -> "VARIANCE"
      [] name = "stdev"    -> "STDEV"
      [] name = "mode"     -> "MODE"
      [] OTHER             -> name

StatKeys == {"min", "max", "mean", "median", "var", "stdev", "perc90"}

\* lines 190-200: which statistics are requested
Calculate(options) ==
    LET opts == {Upper(options[i]) : i \in 1 .. Len(options)}
    IN  [min    |-> "MIN" \in opts \/ "MINIMUM" \in opts,
         max    |-> "MAX" \in opts \/ "MAXIMUM" \in opts,
         mean   |-> "MEAN" \in opts \/ "AVERAGE" \in opts \/ "AVG" \in opts,
         median |-> "MEDIAN" \in opts,
         var    |-> "VAR" \in opts \/ "VARIANCE" \in opts,
         stdev  |-> "STDEV" \in opts,
         perc90 |-> "PERC90" \in opts]

\* list.sort(): insertion of v into an ascending list
RECURSIVE Insert(_, _)
Insert(v, sorted) ==
    IF sorted = <<>> THEN <<v>>
    ELSE IF v <= Head(sorted) THEN <<v>> \o sorted
    ELSE <<Head(sorted)>> \o Insert(v, Tail(sorted))

RECURSIVE Sort(_)
Sort(values) ==
    IF values = <<>> THEN <<>> ELSE Insert(Head(values), Sort(Tail(values)))

\* list[i] with Python's indexing: 0-based, a negative i counts from the end
PyIndex(list, i) == IF i < 0 THEN list[Len(list) + i + 1] ELSE list[i + 1]

\* round(0.5 * n) in Python 3: halves go to the even neighbour
RoundHalf(n) ==
    IF n % 2 = 0 THEN n \div 2
    ELSE LET k == n \div 2 IN IF k % 2 = 0 THEN k ELSE k + 1

\* line 235: int(round(0.5*num_vals))-1
MedianIndexNoOffset(n) == RoundHalf(n)

MedianIndex(n) == RoundHalf(n) - 1

\* line 237: int(math.ceil(0.9*num_vals))-1
Perc90IndexFloor(n) == (9 * n) \div 10 - 1

Perc90Index(n) == CeilDiv(9 * n, 10) - 1

RECURSIVE SumOf(_)
SumOf(values) == IF values = <<>> THEN 0 ELSE Head(values) + SumOf(Tail(values))

RECURSIVE SumOfSquares(_)
SumOfSquares(values) ==
    IF values = <<>> THEN 0
    ELSE Head(values) * Head(values) + SumOfSquares(Tail(values))

\* lines 213-215: the sum of val / num_vals, as the exact fraction
Mean(values) == [num |-> SumOf(values), den |-> Len(values)]

\* lines 219-222: the sum of (val - mean) ** 2 / num_vals, as the exact
\* fraction (n * sum v^2 - (sum v)^2) / n^2
Variance(values) ==
    LET n == Len(values)
    IN  [num |-> n * SumOfSquares(values) - SumOf(values) * SumOf(values),
         den |-> n * n]

\* the dictionary _stats returns
_stats(pixel_values, options) ==
    LET calculate == Calculate(options)
        num_vals  == Len(pixel_values)
        sorted    == Sort(pixel_values)
    IN  [key \in {k \in StatKeys : calculate[k]} |->
            IF num_vals = 0 THEN 0
            ELSE CASE key = "min"    -> PyIndex(sorted, 0)
                   [] key = "max"    -> PyIndex(sorted, -1)
                   [] key = "mean"   -> Mean(pixel_values)
                   [] key = "median" -> PyIndex(sorted, MedianIndex(num_vals))
                   [] key = "var"    -> Variance(pixel_values)
                   [] key = "stdev"  -> [sqrt |-> Variance(pixel_values)]
                   [] key = "perc90" -> PyIndex(sorted, Perc90Index(num_vals))]

\* lines 228-229: the caller's list is sorted in place when a rank statistic
\* is requested and the list is not empty
AfterStats(pixel_values, options) ==
    LET calculate == Calculate(options)
    IN  IF pixel_values # <<>>
           /\ (calculate.min \/ calculate.max \/ calculate.median \/ calculate.perc90)
          THEN Sort(pixel_values)
          ELSE pixel_values

AggregatorInit ==
    /\ aggregator \in [pc : {"call"}, pixel_values : PixelLists, options : OptionLists]
    /\ locator = Idle
    /\ extractor = Idle
    /\ driver = Idle
    /\ rasterizer = Idle
    /\ writer = Idle
    /\ dissolver = Idle
    /\ joiner = Idle

\* _stats(pixel_values, options)
Stats ==
    /\ aggregator.pc = "call"
    /\ aggregator' =
          [pc           |-> "returned",
           input        |-> aggregator.pixel_values,
           pixel_values |-> AfterStats(aggregator.pixel_values, aggregator.options),
           options      |-> aggregator.options,
           stats        |-> _stats(aggregator.pixel_values, aggregator.options)]
    /\ UNCHANGED <<locator, extractor, driver, rasterizer,
                   writer, dissolver, joiner>>

AggregatorNext == Stats

SpecStats == AggregatorInit /\ [][AggregatorNext]_vars

\* the canonical key of a requested name, by the aliases the docstring lists
\* (letter case ignored); "" for a name that is not recognized
CanonicalKey(name) ==
    CASE name \in {"MIN", "minimum"}            -> "min"
      [] name \in {"Max", "MAX", "MAXIMUM"}     -> "max"
      [] name \in {"mean", "MEAN", "AVERAGE", "Avg"} -> "mean"
      [] name \in {"Median", "MEDIAN"}          -> "median"
      [] name \in {"VAR", "variance", "VARIANCE"} -> "var"
      [] name \in {"stdev", "STDEV"}            -> "stdev"
      [] name = "PERC90"                        -> "perc90"
      [] OTHER                                  -> ""

CanonicalKeys(options) ==
    {CanonicalKey(options[i]) : i \in 1 .. Len(options)} \ {""}

\* the value at 1-based rank k of the ascending order of a list: fewer than k
\* values are below it and at least k are not above it
CountBelow(values, v) == Cardinality({i \in 1 .. Len(values) : values[i] < v})
CountUpTo(values, v) == Cardinality({i \in 1 .. Len(values) : values[i] <= v})
RankValue(values, k) ==
    CHOOSE v \in {values[i] : i \in 1 .. Len(values)} :
        CountBelow(values, v) < k /\ k <= CountUpTo(values, v)

\* C9: on an empty value list _stats returns exactly the canonical keys of
\* the requested names, every value 0.
C9_EmptyInputAllZero ==
    (aggregator.pc = "returned" /\ aggregator.input = <<>>) =>
        /\ DOMAIN aggregator.stats = CanonicalKeys(aggregator.options)
        /\ \A k \in DOMAIN aggregator.stats : aggregator.stats[k] = 0

\* C9 witness: an empty list with an alias in lower case and an unrecognized
\* name requested; one key comes back.
C9_Witness ==
    /\ aggregator.pc = "returned"
    /\ aggregator.input = <<>>
    /\ aggregator.options = <<"minimum", "COUNT">>
    /\ DOMAIN aggregator.stats = {"min"}

\* C10: for an input of even length n > 0 the median is the value at 1-based
\* rank n/2 of the ascending order, the lower of the two middle values.
C10_EvenMedianLowerMiddle ==
    (/\ aggregator.pc = "returned"
     /\ Len(aggregator.input) > 0
     /\ Len(aggregator.input) % 2 = 0
     /\ "median" \in DOMAIN aggregator.stats) =>
        aggregator.stats["median"] =
            RankValue(aggregator.input, Len(aggregator.input) \div 2)

\* C10 witness: four unsorted values whose two middle values differ; the
\* median returned is the lower one.
C10_Witness ==
    /\ aggregator.pc = "returned"
    /\ aggregator.input = <<2, 0, 1, 0>>
    /\ "median" \in DOMAIN aggregator.stats
    /\ aggregator.stats["median"] = 0
    /\ RankValue(aggregator.input, 3) = 1

\* C28: for an input of odd length n the median is the middle element, the
\* value at 1-based rank (n + 1) / 2 of the ascending order.
C28_OddMedianMiddle ==
    (/\ aggregator.pc = "returned"
     /\ Len(aggregator.input) % 2 = 1
     /\ "median" \in DOMAIN aggregator.stats) =>
        aggregator.stats["median"] =
            RankValue(aggregator.input, (Len(aggregator.input) + 1) \div 2)

\* C11: for a non-empty input of n values, min is the smallest value, max the
\* largest, and perc90 the value at 1-based rank ceil(0.9 * n) of the
\* ascending order; that rank (the least r with 10 * r >= 9 * n) is in 1 .. n.
C11_MinMaxPerc90 ==
    (aggregator.pc = "returned" /\ Len(aggregator.input) > 0) =>
        LET values == {aggregator.input[i] : i \in 1 .. Len(aggregator.input)}
            n      == Len(aggregator.input)
            stats  == aggregator.stats
        IN  /\ "min" \in DOMAIN stats =>
                  stats["min"] \in values /\ \A v \in values : stats["min"] <= v
            /\ "max" \in DOMAIN stats =>
                  stats["max"] \in values /\ \A v \in values : stats["max"] >= v
            /\ "perc90" \in DOMAIN stats =>
                  \E r \in 1 .. n :
                      /\ 10 * r >= 9 * n
                      /\ 10 * (r - 1) < 9 * n
                      /\ stats["perc90"] = RankValue(aggregator.input, r)

\* C11 witness: ten unsorted values whose rank-9 value (1) is neither the
\* smallest (0) nor the largest (2).
C11_Witness ==
    /\ aggregator.pc = "returned"
    /\ Len(aggregator.input) = 10
    /\ aggregator.input[1] = 2
    /\ aggregator.input[2] = 1
    /\ aggregator.options = <<"PERC90", "Max">>
    /\ aggregator.stats["perc90"] = 1
    /\ aggregator.stats["max"] = 2

----------------------------------------------------------------------------
(* Features and their geometries (ogr.Feature, ogr.Geometry) *)

\* a closed ring around the rectangle [x0, x1] x [y0, y1]
Rect(x0, x1, y0, y1) ==
    [name |-> "LINEARRING",
     points |-> <<<<x0, y1>>, <<x1, y1>>, <<x1, y0>>, <<x0, y0>>, <<x0, y1>>>>]

Polygon(rings) == [kind |-> "POLYGON", rings |-> rings]
NoGeometry == [kind |-> "None"]
Point(x, y) == [kind |-> "POINT", points |-> <<<<x, y>>>>]
MultiPolygon(polygons) == [kind |-> "MULTIPOLYGON", polygons |-> polygons]

\* every vertex of a geometry
GeometryPoints(geom) ==
    IF geom.kind = "POLYGON"
      THEN UNION {{geom.rings[r].points[p] : p \in 1 .. Len(geom.rings[r].points)} :
                    r \in 1 .. Len(geom.rings)}
    ELSE IF geom.kind = "MULTIPOLYGON"
      THEN UNION {UNION {{geom.polygons[g].rings[r].points[p] :
                            p \in 1 .. Len(geom.polygons[g].rings[r].points)} :
                         r \in 1 .. Len(geom.polygons[g].rings)} :
                    g \in 1 .. Len(geom.polygons)}
    ELSE {geom.points[p] : p \in 1 .. Len(geom.points)}

SetMin(S) == CHOOSE v \in S : \A u \in S : v <= u
SetMax(S) == CHOOSE v \in S : \A u \in S : v >= u

\* geometry.GetEnvelope()
GetEnvelope(geom) ==
    LET pts == GeometryPoints(geom)
    IN  [xmin |-> SetMin({q[1] : q \in pts}), xmax |-> SetMax({q[1] : q \in pts}),
         ymin |-> SetMin({q[2] : q \in pts}), ymax |-> SetMax({q[2] : q \in pts})]

\* features.py getFeatureExtent: feature.GetGeometryRef() is None for a
\* feature without geometry, and None.GetEnvelope() raises
getFeatureExtent(feature) ==
    IF feature.geom.kind = "None"
      THEN [error |-> "AttributeError: 'NoneType' object has no attribute 'GetEnvelope'"]
      ELSE [envelope |-> GetEnvelope(feature.geom)]

\* getFeatureToRasterWindow(raster, feature) on a feature: [error |-> e] or
\* [window |-> w]
WindowOfExtent(raster, ext) ==
    IF "error" \in DOMAIN ext THEN ext
    ELSE [window |-> getFeatureToRasterWindow(raster.dataset, ext.envelope)]

FeatureWindow(raster, feature) == WindowOfExtent(raster, getFeatureExtent(feature))

----------------------------------------------------------------------------
(* lib/conversion.py featureToArray *)

\* Image.new("L", (w, h), 0)
BlankImage(resolution) == [y \in 1 .. resolution[2] |-> [x \in 1 .. resolution[1] |-> 0]]

\* ImageDraw.polygon(pixels, value) for the rings of the model, which are
\* axis-aligned rectangles: the cells between the extreme vertex pixels, both
\* ends included, are set to value; cells outside the image are clipped
DrawPolygon(image, pixels, value) ==
    LET xs == {pixels[k][1] : k \in 1 .. Len(pixels)}
        ys == {pixels[k][2] : k \in 1 .. Len(pixels)}
    IN  [y \in DOMAIN image |->
            [x \in DOMAIN image[y] |->
                IF /\ SetMin(xs) <= x - 1 /\ x - 1 <= SetMax(xs)
                   /\ SetMin(ys) <= y - 1 /\ y - 1 <= SetMax(ys)
                  THEN value ELSE image[y][x]]]

\* lines 67-76: the ring's vertices as pixel coordinates of the window
RingPixels(ring, origin, pixel_size) ==
    [k \in 1 .. Len(ring.points) |-> calcPixelCoordinate(ring.points[k], origin, pixel_size)]

\* line 77: 1 if outer else 0, outer being true for the first ring only
RingValueAlwaysOne(r) == 1

RingValue(r) == IF r = 1 THEN 1 ELSE 0

\* lines 63-79: the rings of one polygon from ring number r on; the first
\* ring paints 1, every later ring paints 0
RECURSIVE DrawRings(_, _, _, _, _)
DrawRings(image, poly, r, origin, pixel_size) ==
    IF r > Len(poly.rings) THEN image
    ELSE DrawRings(
            DrawPolygon(image, RingPixels(poly.rings[r], origin, pixel_size),
                        RingValue(r)),
            poly, r + 1, origin, pixel_size)

\* lines 60-79: the polygons from number g on
RECURSIVE DrawPolygons(_, _, _, _, _)
DrawPolygons(image, polygons, g, origin, pixel_size) ==
    IF g > Len(polygons) THEN image
    ELSE DrawPolygons(DrawRings(image, polygons[g], 1, origin, pixel_size),
                      polygons, g + 1, origin, pixel_size)

\* lines 42-43: the [] returned when an argument is None
NoArrayRaises == [error |-> "TypeError: 'NoneType' object is not subscriptable"]

NoArray == [mask |-> <<>>]

\* [error |-> e] or [mask |-> array]
featureToArray(feature, origin, pixel_size, resolution) ==
    IF origin = None \/ pixel_size = None \/ resolution = None
      THEN NoArray
    ELSE IF feature.geom.kind \notin {"POLYGON", "MULTIPOLYGON"}
      THEN [error |-> "Unsupported geometry type for mask"]
    ELSE LET polygons == IF feature.geom.kind = "POLYGON" THEN <<feature.geom>>
                         ELSE feature.geom.polygons
         IN  IF \E g \in 1 .. Len(polygons) : \E r \in 1 .. Len(polygons[g].rings) :
                    polygons[g].rings[r].name # "LINEARRING"
               THEN [error |-> "LINEARRING geometry expected in POLYGON"]
               ELSE [mask |-> DrawPolygons(BlankImage(resolution), polygons, 1,
                                           origin, pixel_size)]

\* lib/extract.py getPixelsByFeatureMask: [error |-> e] or [values |-> list,
\* windows |-> calls of getFeatureToRasterWindow, masks |-> calls of
\* featureToArray]
\* line 94, with fa the outcome of featureToArray
PixelsUnderMask(raster, band, w, fa, ignore_values) ==
    IF "error" \in DOMAIN fa THEN fa
    ELSE getPixelsByMaskArray(raster, band, fa.mask, w.offset, w.resolution,
                              ignore_values) @@ [windows |-> 1, masks |-> 1]

\* lines 90-94, with fw the outcome of getFeatureToRasterWindow
PixelsInWindow(raster, band, feature, ignore_values, fw) ==
    IF "error" \in DOMAIN fw THEN fw
    ELSE IF IsNull(fw.window) THEN [values |-> <<>>, windows |-> 1, masks |-> 0]
    ELSE PixelsUnderMask(raster, band, fw.window,
                         featureToArray(feature, fw.window.origin,
                                        fw.window.pixel_size, fw.window.resolution),
                         ignore_values)

getPixelsByFeatureMask(raster, band, feature, ignore_values) ==
    PixelsInWindow(raster, band, feature, ignore_values, FeatureWindow(raster, feature))

----------------------------------------------------------------------------
(* lib/zonal.py statistics: the inputs of a call *)

\* a layer holds at most MaxFeatures features, a call at most MaxRasters rasters
MaxFeatures == 2
MaxRasters == 2

\* a raster on another grid than RasterA and RasterB
RasterC ==
    [origin |-> Origin, pixel_size |-> <<3, -3>>, width |-> 2, height |-> 2,
     bands |-> << << <<1, 2>>, <<0, 3>> >>,
                  << <<4, 0>>, <<4, 5>> >> >>]

\* geometries: a polygon over the four left pixels of RasterA, a polygon right
\* of every raster, no geometry, and a point inside the rasters
Geometries ==
    {Polygon(<<Rect(1, 5, -3, 1)>>), Polygon(<<Rect(20, 24, -3, 1)>>),
     NoGeometry, Point(2, 0)}

\* the layers: features numbered from 0 in iteration order, the read cursor
\* anywhere (ogr.Layer.GetNextFeature / SetNextByIndex)
Layers ==
    UNION {[features : [1 .. n -> Geometries], cursor : {0, n}] : n \in 0 .. MaxFeatures}

\* ogr.Layer.SetNextByIndex(index): the next feature read is number index
SetNextByIndexMissing(layer, index) == layer

SetNextByIndex(layer, index) == [layer EXCEPT !.cursor = index]

FeatureAt(layer, i) == [fid |-> i - 1, geom |-> layer.features[i]]

\* the fields of every layer's definition, in index order
LayerFields == <<"ID", "NAME">>

\* ogr.FeatureDefn.GetFieldIndex: the 0-based index of the name, -1 if absent
GetFieldIndex(field_name) ==
    IF \E k \in 1 .. Len(LayerFields) : LayerFields[k] = field_name
      THEN (CHOOSE k \in 1 .. Len(LayerFields) : LayerFields[k] = field_name) - 1
      ELSE -1

\* ogr.Feature.GetFieldAs...: feature number n holds ID 100 + n and NAME "zone"
GetField(feature, index) ==
    IF index = 0 THEN 100 + feature.fid ELSE IF index = 1 THEN "zone" ELSE None

\* a string argument, and a raster given as the path of a file holding d
Str(s) == [kind |-> "str", value |-> s]
Path(d) == [kind |-> "str", dataset |-> d]

RasterEntries == {NoRaster, Raster(RasterA), Raster(RasterB), Raster(RasterC)}

\* the `rasters` argument: None, one dataset, or a list (possibly empty)
RastersArguments ==
    {[kind |-> "None"], [kind |-> "single", raster |-> Raster(RasterA)]}
        \cup {[kind |-> "list", items |-> l] : l \in SeqsUpTo(RasterEntries, MaxRasters)}

\* the `bands` argument: None, one band number, or a list of band numbers
IntValue(v) == [kind |-> "int", value |-> v]
ListValue(l) == [kind |-> "list", items |-> l]

BandsArguments ==
    {[kind |-> "None"], IntValue(1), ListValue(<<IntValue(1)>>), ListValue(<<IntValue(1), IntValue(2)>>),
     ListValue(<<IntValue(1), IntValue(1), IntValue(2)>>)}

\* the `statistics` argument; no names at all stands for None and for []
StatisticsArguments ==
    {DefaultOptions, <<"MIN", "Max">>, <<"Median", "COUNT">>,
     <<>>, <<"minimum">>, <<"MIN", "minimum">>, <<"Max", "Max">>}

\* the `ignore_values` argument: None, the number 0, or a list
IgnoreScalar(v) == [kind |-> "scalar", value |-> v]
IgnoreArguments == {IgnoreNone, IgnoreScalar(0)}

\* the `feature_data` argument is an ogr.Layer, an ogr.DataSource holding the
\* layer, or the path of a file holding it
FeatureDataArguments == {"Layer", "DataSource", "str"}

\* the `unique_field` and `name_field` arguments: None or a field name
FieldArguments == {[kind |-> "None"], Str("ID"), Str("NAME"), Str("OBJECTID")}

\* the `rasters` arguments with file paths among the entries
PathArguments ==
    {[kind |-> "None"], [kind |-> "list", items |-> <<>>],
     [kind |-> "single", raster |-> Raster(RasterA)],
     [kind |-> "single", raster |-> Path(RasterA)],
     [kind |-> "list", items |-> <<Path(RasterA), Path(RasterB)>>],
     [kind |-> "list", items |-> <<NoRaster, Path(RasterA)>>]}

\* the calls: with the default bands, every layer, rasters and ignore argument
\* with two statistics, and every layer, statistics and ignore argument with
\* one raster; with the other bands arguments, every rasters argument; with
\* the other feature_data and field arguments, the rasters given as paths
Calls ==
    [layer : Layers, rasters : RastersArguments, bands : {[kind |-> "None"]},
     statistics : {<<"MIN", "Max">>}, ignore_values : IgnoreArguments,
     feature_data : {"Layer"}, unique_field : {[kind |-> "None"]},
     name_field : {[kind |-> "None"]}]
    \cup
    [layer : Layers, rasters : {[kind |-> "single", raster |-> Raster(RasterA)]},
     bands : {[kind |-> "None"]},
     statistics : {DefaultOptions, <<"Median", "COUNT">>},
     ignore_values : IgnoreArguments,
     feature_data : {"Layer"}, unique_field : {[kind |-> "None"]},
     name_field : {[kind |-> "None"]}]
    \cup
    [layer : {[features |-> <<>>, cursor |-> 0]}, rasters : RastersArguments,
     bands : BandsArguments \ {[kind |-> "None"]}, statistics : {<<"MIN", "Max">>},
     ignore_values : {IgnoreNone},
     feature_data : {"Layer"}, unique_field : {[kind |-> "None"]},
     name_field : {[kind |-> "None"]}]
    \cup
    [layer : {[features |-> <<>>, cursor |-> 0],
              [features |-> <<Polygon(<<Rect(1, 5, -3, 1)>>)>>, cursor |-> 1]},
     rasters : PathArguments, bands : {[kind |-> "None"]},
     statistics : {<<>>, <<"minimum">>, <<"MIN", "minimum">>, <<"Max", "Max">>},
     ignore_values : {IgnoreScalar(0)},
     feature_data : FeatureDataArguments, unique_field : FieldArguments,
     name_field : {[kind |-> "None"], Str("NAME"), Str("LABEL")}]

----------------------------------------------------------------------------
(* lib/zonal.py statistics: the steps of a call *)

\* an exception leaves the call; opened holds what the call has opened and
\* not released
Raise(d, message) == [pc |-> "raised", call |-> d.call, at |-> d.pc, error |-> message,
                      table |-> IF "table" \in DOMAIN d THEN d.table ELSE <<>>,
                      opened |-> IF "opened" \in DOMAIN d THEN d.opened ELSE {}]

\* lines 36-51: rasters must be a list of rasters or a single raster
CheckedRasters(arg) ==
    IF arg.kind = "None" THEN [error |-> "No rasters supplied"]
    ELSE IF arg.kind = "single" THEN [rasters |-> <<arg.raster>>]
    ELSE IF Len(arg.items) = 0 THEN [error |-> "No rasters supplied"]
    ELSE [rasters |-> arg.items]

\* lines 43-51: an entry given as a path is replaced by the dataset opened
\* from it (rasters.py getRasterAsGdal)
getRasterAsGdal(rasterpath) == Raster(rasterpath.dataset)

OpenedRasters(rasters) ==
    [i \in 1 .. Len(rasters) |->
        IF rasters[i].kind = "str" THEN getRasterAsGdal(rasters[i]) ELSE rasters[i]]

\* the datasets lines 43-51 open, by their position in the list
OpenedByCall(rasters) ==
    {[dataset |-> i] : i \in {j \in 1 .. Len(rasters) : rasters[j].kind = "str"}}

\* lib/_getlayer.py get, with allow_path left False: [layer, datasource], the
\* datasource being one that get opened itself, or [error |-> e]
_get_layer(datasource, layer) ==
    IF datasource \in {"DataSource", "Layer"} THEN [layer |-> layer, datasource |-> None]
    ELSE [error |-> "Must supply ogr DataSource or Layer as input"]

\* Field.py lines 15-43 for a field given by name
FieldFID == [kind |-> "Field", is_fid |-> TRUE, name |-> "FID", index |-> -1]

FieldUnchecked(field_name, must_exist) ==
    [kind |-> "Field", is_fid |-> FALSE, name |-> field_name,
     index |-> GetFieldIndex(field_name)]

Field(field_name, must_exist) ==
    IF GetFieldIndex(field_name) < 0 /\ must_exist
      THEN [error |-> "Field (" \o field_name \o ") does not exist"]
      ELSE [kind |-> "Field", is_fid |-> FALSE,
            name |-> IF GetFieldIndex(field_name) < 0 THEN "" ELSE field_name,
            index |-> GetFieldIndex(field_name)]

\* fields.py value
value(feature, field) ==
    IF field.is_fid THEN feature.fid ELSE GetField(feature, field.index)

\* lines 102-110, with u the outcome for the unique field: the name field is
\* looked up when one is given
FieldsOfName(d, u) ==
    IF "error" \in DOMAIN u THEN u
    ELSE IF d.call.name_field.kind = "None"
      THEN [unique_field |-> u, name_field |-> d.call.name_field]
    ELSE IF "error" \in DOMAIN Field(d.call.name_field.value, TRUE)
      THEN Field(d.call.name_field.value, TRUE)
    ELSE [unique_field |-> u, name_field |-> Field(d.call.name_field.value, TRUE)]

\* lines 102-110: [error |-> e] or [unique_field, name_field]
FieldsOfCall(d) ==
    FieldsOfName(d, IF d.call.unique_field.kind = "None" THEN FieldFID
                    ELSE Field(d.call.unique_field.value, TRUE))

\* lines 53-67: line 58 wraps the argument in a list when it already is one;
\* line 60 iterates it (a TypeError for a number) and asserts every element
\* is an int
NormalisedBands(arg, n) ==
    IF arg.kind = "None" THEN [bands |-> [k \in 1 .. n |-> 1]]
    ELSE IF arg.kind # "list"
      THEN [error |-> "TypeError: 'int' object is not iterable"]
    ELSE LET bands == <<arg>>
         IN  IF \E k \in 1 .. Len(bands) : bands[k].kind # "int"
               THEN [error |-> "AssertionError"]
             ELSE IF Len(bands) = n THEN [bands |-> [k \in 1 .. n |-> bands[k].value]]
             ELSE IF Len(bands) = 1 THEN [bands |-> [k \in 1 .. n |-> bands[1].value]]
             ELSE [error |-> "Inconsistent number of rasters and bands given"]

Grid(raster) == getRasterTransform(raster.dataset)

\* lines 69-89: every raster has the transform of the first one that is not None
IdenticalRastersNever(rasters) == FALSE

IdenticalRasters(rasters) ==
    \A i, j \in 1 .. Len(rasters) :
        (rasters[i].kind # "None" /\ rasters[j].kind # "None")
            => Grid(rasters[i]) = Grid(rasters[j])

\* lines 91-97: a single number becomes a list
CorrectedIgnore(arg) ==
    IF arg.kind = "scalar" THEN IgnoreList(<<arg.value>>) ELSE arg

\* the index of the first raster that is not None, 0 when there is none
FirstRaster(rasters) ==
    IF \A i \in 1 .. Len(rasters) : rasters[i].kind = "None" THEN 0
    ELSE CHOOSE i \in 1 .. Len(rasters) :
            /\ rasters[i].kind # "None"
            /\ \A j \in 1 .. i - 1 : rasters[j].kind = "None"

\* lines 130-138: the window and the mask made once for identical rasters:
\* [error |-> e] or [poly_array, offset, resolution, windows, masks], the last
\* two counting the calls of getFeatureToRasterWindow and featureToArray
\* line 137, with fa the outcome of featureToArray
SharedOfMask(w, fa) ==
    IF "error" \in DOMAIN fa THEN fa
    ELSE [poly_array |-> fa.mask, offset |-> w.offset, resolution |-> w.resolution,
          windows |-> 1, masks |-> 1]

\* lines 136-137, with fw the outcome of getFeatureToRasterWindow
SharedOfWindow(feature, fw) ==
    IF "error" \in DOMAIN fw THEN fw
    ELSE SharedOfMask(fw.window,
                      featureToArray(feature, fw.window.origin, fw.window.pixel_size,
                                     fw.window.resolution))

SharedOfFirst(rasters, feature, identical_rasters, f) ==
    IF ~identical_rasters \/ f = 0
      THEN [poly_array |-> None, offset |-> None, resolution |-> None,
            windows |-> 0, masks |-> 0]
      ELSE SharedOfWindow(feature, FeatureWindow(rasters[f], feature))

SharedMask(rasters, feature, identical_rasters) ==
    SharedOfFirst(rasters, feature, identical_rasters, FirstRaster(rasters))

\* lines 145-155: the pixels added for raster i: [error |-> e] or [values |-> l]
AddPixelsOfFirst(d, shared, feature, i) ==
    IF d.rasters[i].kind = "None" THEN [values |-> <<>>, windows |-> 0, masks |-> 0]
    ELSE IF d.identical_rasters
      THEN getPixelsByMaskArray(d.rasters[FirstRaster(d.rasters)], d.bands[i],
                                shared.poly_array, shared.offset, shared.resolution,
                                d.ignore_values)
               @@ [windows |-> 0, masks |-> 0]
      ELSE getPixelsByFeatureMask(d.rasters[i], d.bands[i], feature, d.ignore_values)

AddPixels(d, shared, feature, i) ==
    IF d.rasters[i].kind = "None" THEN [values |-> <<>>, windows |-> 0, masks |-> 0]
    ELSE IF d.identical_rasters
      THEN getPixelsByMaskArray(d.rasters[i], d.bands[i], shared.poly_array,
                                shared.offset, shared.resolution, d.ignore_values)
               @@ [windows |-> 0, masks |-> 0]
      ELSE getPixelsByFeatureMask(d.rasters[i], d.bands[i], feature, d.ignore_values)

\* line 155: pixels += add_pixels, for the rasters 1 .. n in turn
ConcatLast(lists, n) == IF n = 0 THEN <<>> ELSE lists[n].values

RECURSIVE Concat(_, _)
Concat(lists, n) == IF n = 0 THEN <<>> ELSE Concat(lists, n - 1) \o lists[n].values

\* lines 143-158: count_total starts at 0 and grows by every raster's
\* pixel_count
CountTotalLast(added, n) == Len(added[n].values)

CountTotal(added, n) == SumOf([i \in 1 .. n |-> Len(added[i].values)])

\* lines 125-165: the row of one feature: [error |-> e] or [row |-> r]
\* lines 156-162, with added[i] the pixels of raster i and pixels their
\* concatenation
RowOfPixels(d, feature, n, added, pixels, shared) ==
    [row |->
       [id          |-> value(feature, d.unique_field),
        name        |-> IF d.name_field.kind = "None" THEN None
                        ELSE value(feature, d.name_field),
        count_total |-> CountTotal(added, n),
        counts      |-> IF n > 1 THEN [i \in 1 .. n |-> Len(added[i].values)] ELSE <<>>,
        samples     |-> [i \in 1 .. n |-> added[i].values],
        pixels      |-> pixels,
        windows     |-> shared.windows + SumOf([i \in 1 .. n |-> added[i].windows]),
        masks       |-> shared.masks + SumOf([i \in 1 .. n |-> added[i].masks]),
        stats       |-> _stats(pixels, d.call.statistics)]]

\* lines 145-162, with added[i] the outcome for raster i: the first error
\* ends the call
RowOfAdded(d, feature, n, added, shared) ==
    IF \E i \in 1 .. n : "error" \in DOMAIN added[i]
      THEN added[CHOOSE i \in 1 .. n :
                   /\ "error" \in DOMAIN added[i]
                   /\ \A j \in 1 .. i - 1 : "error" \notin DOMAIN added[j]]
      ELSE RowOfPixels(d, feature, n, added, Concat(added, n), shared)

\* lines 140-162, with shared the outcome of lines 130-138
RowOfShared(d, feature, n, shared) ==
    IF "error" \in DOMAIN shared THEN shared
    ELSE RowOfAdded(d, feature, n, [i \in 1 .. n |-> AddPixels(d, shared, feature, i)],
                    shared)

FeatureRow(d, feature) ==
    RowOfShared(d, feature, Len(d.rasters),
                SharedMask(d.rasters, feature, d.identical_rasters))

\* lines 164-166, with r the outcome of the loop body
AfterRow(d, feature, r) ==
    IF "error" \in DOMAIN r
      THEN Raise(d, r.error) @@ [feature |-> feature]
      ELSE [d EXCEPT !.cursor = @ + 1, !.table = Append(@, r.row)]

AfterFeature(d, feature) == AfterRow(d, feature, FeatureRow(d, feature))

DriverInit ==
    /\ driver \in [pc : {"rasters"}, call : Calls]
    /\ locator = Idle
    /\ extractor = Idle
    /\ aggregator = Idle
    /\ rasterizer = Idle
    /\ writer = Idle
    /\ dissolver = Idle
    /\ joiner = Idle

\* lines 36-51
CheckRasters ==
    /\ driver.pc = "rasters"
    /\ LET r == CheckedRasters(driver.call.rasters)
       IN  driver' = IF "error" \in DOMAIN r THEN Raise(driver, r.error)
                     ELSE [pc |-> "bands", call |-> driver.call,
                           rasters |-> OpenedRasters(r.rasters),
                           opened |-> OpenedByCall(r.rasters)]
    /\ UNCHANGED <<locator, extractor, aggregator, rasterizer,
                   writer, dissolver, joiner>>

\* lines 53-67
NormaliseBands ==
    /\ driver.pc = "bands"
    /\ LET b == NormalisedBands(driver.call.bands, Len(driver.rasters))
       IN  driver' = IF "error" \in DOMAIN b THEN Raise(driver, b.error)
                     ELSE [pc |-> "identical", call |-> driver.call,
                           rasters |-> driver.rasters, bands |-> b.bands,
                           opened |-> driver.opened]
    /\ UNCHANGED <<locator, extractor, aggregator, rasterizer,
                   writer, dissolver, joiner>>

\* lines 69-97
CheckIdentical ==
    /\ driver.pc = "identical"
    /\ driver' = [pc |-> "layer", call |-> driver.call,
                  rasters |-> driver.rasters, bands |-> driver.bands,
                  identical_rasters |-> IdenticalRasters(driver.rasters),
                  ignore_values |-> CorrectedIgnore(driver.call.ignore_values),
                  opened |-> driver.opened]
    /\ UNCHANGED <<locator, extractor, aggregator, rasterizer,
                   writer, dissolver, joiner>>

\* lines 99-100
GetLayer ==
    /\ driver.pc = "layer"
    /\ LET l == _get_layer(driver.call.feature_data, driver.call.layer)
       IN  driver' = IF "error" \in DOMAIN l THEN Raise(driver, l.error)
                     ELSE [driver EXCEPT !.pc = "fields"]
                              @@ [feature_data |-> l.datasource]
    /\ UNCHANGED <<locator, extractor, aggregator, rasterizer,
                   writer, dissolver, joiner>>

\* lines 102-110
GetFields ==
    /\ driver.pc = "fields"
    /\ LET f == FieldsOfCall(driver)
       IN  driver' = IF "error" \in DOMAIN f THEN Raise(driver, f.error)
                     ELSE [driver EXCEPT !.pc = "statistics"] @@ f
    /\ UNCHANGED <<locator, extractor, aggregator, rasterizer,
                   writer, dissolver, joiner>>

\* lines 113-117, with checked the dictionary _stats returns for an empty
\* list: the message of the exception raised, "" when none is
StatisticsErrorLenient(statistics, checked) ==
    IF Len(statistics) = 0 THEN "No statistics supplied in parameters" ELSE ""

StatisticsError(statistics, checked) ==
    IF Len(statistics) = 0 THEN "No statistics supplied in parameters"
    ELSE IF Cardinality(DOMAIN checked) # Len(statistics)
      THEN "Unrecognized statistics type in parameters, check parameter/spelling"
    ELSE ""

\* lines 112-123: the statistics names are checked on an empty list, then the
\* layer's cursor is reset
CheckStatistics ==
    /\ driver.pc = "statistics"
    /\ driver' =
          IF StatisticsError(driver.call.statistics, _stats(<<>>, driver.call.statistics)) # ""
            THEN Raise(driver, StatisticsError(driver.call.statistics,
                                               _stats(<<>>, driver.call.statistics)))
                    @@ [checked |-> _stats(<<>>, driver.call.statistics)]
          ELSE [pc |-> "loop", call |-> driver.call,
                rasters |-> driver.rasters, bands |-> driver.bands,
                identical_rasters |-> driver.identical_rasters,
                ignore_values |-> driver.ignore_values,
                opened |-> driver.opened, feature_data |-> driver.feature_data,
                unique_field |-> driver.unique_field,
                name_field |-> driver.name_field,
                cursor |-> SetNextByIndex(driver.call.layer, 0).cursor,
                table |-> <<>>]
    /\ UNCHANGED <<locator, extractor, aggregator, rasterizer,
                   writer, dissolver, joiner>>

\* lines 124-166: the body of the loop for the feature under the cursor
ProcessFeature ==
    /\ driver.pc = "loop"
    /\ driver.cursor < Len(driver.call.layer.features)
    /\ driver' = AfterFeature(driver, FeatureAt(driver.call.layer, driver.cursor + 1))
    /\ UNCHANGED <<locator, extractor, aggregator, rasterizer,
                   writer, dissolver, joiner>>

\* lines 168-172: the feature datasource is released when _get_layer
\* returned one
Return ==
    /\ driver.pc = "loop"
    /\ driver.cursor = Len(driver.call.layer.features)
    /\ driver' = [pc |-> "returned", call |-> driver.call, rasters |-> driver.rasters,
                  table |-> driver.table,
                  opened |-> IF driver.feature_data # None
                               THEN driver.opened \ {[datasource |-> "feature_data"]}
                               ELSE driver.opened]
    /\ UNCHANGED <<locator, extractor, aggregator, rasterizer,
                   writer, dissolver, joiner>>

DriverNext ==
    CheckRasters \/ NormaliseBands \/ CheckIdentical \/ GetLayer \/ GetFields
        \/ CheckStatistics \/ ProcessFeature \/ Return

SpecZonal == DriverInit /\ [][DriverNext]_vars

----------------------------------------------------------------------------
(* Claims about the driver *)

\* the number of rasters of a call
RasterCount(call) ==
    IF call.rasters.kind = "single" THEN 1
    ELSE IF call.rasters.kind = "list" THEN Len(call.rasters.items)
    ELSE 0

\* the bands the docstring (lines 20-22) promises for n rasters: a list of n
\* numbers as given, one number (alone or in a list) for every raster, band 1
\* when omitted; <<>> when the list's length is neither 1 nor n
DocumentedBands(arg, n) ==
    IF arg.kind = "None" THEN [k \in 1 .. n |-> 1]
    ELSE IF arg.kind = "int" THEN [k \in 1 .. n |-> arg.value]
    ELSE IF Len(arg.items) = n THEN [k \in 1 .. n |-> arg.items[k].value]
    ELSE IF Len(arg.items) = 1 THEN [k \in 1 .. n |-> arg.items[1].value]
    ELSE <<>>

\* C3: with N rasters a list of N band numbers is taken as given, a single
\* band number is applied to all rasters, omitted bands mean band 1, and only
\* a band list whose length is neither 1 nor N is rejected.
C3_BandNormalisation ==
    /\ (driver.pc = "raised" /\ driver.at = "bands") =>
          /\ driver.call.bands.kind = "list"
          /\ Len(driver.call.bands.items) \notin {1, RasterCount(driver.call)}
    /\ driver.pc = "identical" =>
          driver.bands = DocumentedBands(driver.call.bands, RasterCount(driver.call))

\* C4: a feature without geometry raises nothing and gets a row with
\* count_total = 0 and every requested statistic 0.
C4_NullGeometryRow ==
    /\ (driver.pc = "raised" /\ driver.at = "loop") =>
          driver.feature.geom.kind # "None"
    /\ driver.pc \in {"loop", "returned"} =>
          \A i \in 1 .. Len(driver.table) :
              driver.call.layer.features[i].kind = "None" =>
                  /\ driver.table[i].count_total = 0
                  /\ \A k \in DOMAIN driver.table[i].stats :
                        driver.table[i].stats[k] = 0

\* a name of the call's `statistics` that is no recognized name or alias
HasUnrecognizedName(call) ==
    \E i \in 1 .. Len(call.statistics) : CanonicalKey(call.statistics[i]) = ""

\* C12: when a requested statistic name is not recognized, the call never
\* reaches the feature loop or returns, and where it raises no row has been
\* produced; the _stats call made for the check returns without the name's key.
C12_UnrecognizedRejected ==
    HasUnrecognizedName(driver.call) =>
        /\ driver.pc \notin {"loop", "returned"}
        /\ driver.pc = "raised" => driver.table = <<>>
        /\ (driver.pc = "raised" /\ driver.at = "statistics") =>
              /\ DOMAIN driver.checked = CanonicalKeys(driver.call.statistics)
              /\ Cardinality(DOMAIN driver.checked) < Len(driver.call.statistics)

\* C12 witness: a call on a layer with features, asking for Median and COUNT,
\* raised at the statistics check after _stats returned the median key alone.
C12_Witness ==
    /\ driver.pc = "raised"
    /\ driver.at = "statistics"
    /\ driver.call.statistics = <<"Median", "COUNT">>
    /\ Len(driver.call.layer.features) > 0
    /\ DOMAIN driver.checked = {"median"}
    /\ driver.table = <<>>

\* C13: a call that returns yields one row per feature of the layer, in the
\* layer's order from the first feature on, wherever the layer's cursor was;
\* row i carries the unique field's value of feature i.
C13_OneRowPerFeature ==
    driver.pc = "returned" =>
        /\ Len(driver.table) = Len(driver.call.layer.features)
        /\ \A i \in 1 .. Len(driver.table) :
              driver.table[i].id =
                  value(FeatureAt(driver.call.layer, i), FieldsOfCall(driver).unique_field)

\* C13 witness: a layer of two features whose cursor was at the end when the
\* call began; the call returned two rows, feature 0 first.
C13_Witness ==
    /\ driver.pc = "returned"
    /\ Len(driver.call.layer.features) = 2
    /\ driver.call.layer.cursor = 2
    /\ Len(driver.table) = 2
    /\ driver.table[1].id = 0
    /\ driver.table[2].id = 1

\* the rows produced so far
Rows == IF "table" \in DOMAIN driver THEN driver.table ELSE <<>>

\* C14: in every row count_total is the sum of the per-raster counts and the
\* size of the pixel sample; count_1 .. count_N are present exactly when
\* N > 1 rasters were supplied; a None raster entry counts 0 and raises nothing.
C14_CountsAddUp ==
    /\ \A k \in 1 .. Len(Rows) :
          LET row == Rows[k]
              n   == RasterCount(driver.call)
          IN  /\ row.count_total = Len(row.pixels)
              /\ Len(row.counts) = IF n > 1 THEN n ELSE 0
              /\ n > 1 =>
                    /\ row.count_total = SumOf(row.counts)
                    /\ \A i \in 1 .. n :
                          driver.call.rasters.items[i].kind = "None" => row.counts[i] = 0
    /\ (driver.pc = "raised" /\ driver.at = "loop") =>
          \E i \in 1 .. RasterCount(driver.call) :
              /\ driver.call.rasters.kind = "list" => driver.call.rasters.items[i].kind # "None"
              /\ driver.feature.geom.kind # "POLYGON"

\* C14 witness: a call with the rasters [None, RasterA] returned a row whose
\* counts are 0 and 2 and whose count_total is 2.
C14_Witness ==
    /\ driver.pc = "returned"
    /\ driver.call.rasters = [kind |-> "list", items |-> <<NoRaster, Raster(RasterA)>>]
    /\ Len(driver.table) > 0
    /\ driver.table[1].counts = <<0, 2>>
    /\ driver.table[1].count_total = 2
    /\ Len(driver.table[1].pixels) = 2

\* the values of the lists l[1] .. l[n], one after the other
RECURSIVE Joined(_, _)
Joined(l, n) == IF n = 0 THEN <<>> ELSE Joined(l, n - 1) \o l[n]

\* the rank ceil(0.9 * n), for n > 0
Rank90(n) == CHOOSE r \in 1 .. n : 10 * r >= 9 * n /\ 10 * (r - 1) < 9 * n

\* C15: the statistics of a row are computed once, over the retained pixels
\* of all rasters together: the sample is the concatenation of the rasters'
\* samples, min and max are its smallest and largest value, mean its mean.
C15_StatsOverAllRasters ==
    \A k \in 1 .. Len(Rows) :
        LET row == Rows[k]
            all == Joined(row.samples, Len(row.samples))
            values == {all[i] : i \in 1 .. Len(all)}
        IN  /\ row.pixels = all
            /\ DOMAIN row.stats = CanonicalKeys(driver.call.statistics)
            /\ all = <<>> => \A key \in DOMAIN row.stats : row.stats[key] = 0
            /\ all # <<>> =>
                  /\ "min" \in DOMAIN row.stats =>
                        row.stats["min"] \in values /\ \A v \in values : row.stats["min"] <= v
                  /\ "max" \in DOMAIN row.stats =>
                        row.stats["max"] \in values /\ \A v \in values : row.stats["max"] >= v
                  /\ "mean" \in DOMAIN row.stats =>
                        row.stats["mean"] = [num |-> SumOf(all), den |-> Len(all)]
                  /\ "perc90" \in DOMAIN row.stats =>
                        row.stats["perc90"] = RankValue(all, Rank90(Len(all)))

\* C15 witness: two rasters whose samples for the feature are <<1, 3>> and
\* <<2, 2, 1>>; the row's max is 3, the maximum over both, not the second
\* raster's 2.
C15_Witness ==
    /\ driver.pc = "returned"
    /\ Len(driver.table) > 0
    /\ driver.table[1].samples = << <<1, 3>>, <<2, 2, 1>> >>
    /\ driver.call.statistics = <<"MIN", "Max">>
    /\ driver.table[1].stats["max"] = 3
    /\ driver.table[1].stats["min"] = 1

\* the datasets of a call's rasters that are not None
SuppliedDatasets(call) ==
    IF call.rasters.kind = "single" THEN {call.rasters.raster.dataset}
    ELSE IF call.rasters.kind = "list"
      THEN {call.rasters.items[i].dataset :
              i \in {j \in 1 .. Len(call.rasters.items) : call.rasters.items[j].kind # "None"}}
    ELSE {}

\* at least one raster is supplied and all supplied rasters have one grid
SameGrid(call) ==
    /\ SuppliedDatasets(call) # {}
    /\ \A a, b \in SuppliedDatasets(call) :
          /\ a.origin = b.origin
          /\ a.pixel_size = b.pixel_size
          /\ a.width = b.width
          /\ a.height = b.height

\* C16: when the supplied rasters share one grid, every feature's row was made
\* with exactly one call of the window locator and one of the rasterizer.
C16_SharedGridOnce ==
    SameGrid(driver.call) =>
        \A k \in 1 .. Len(Rows) : Rows[k].windows = 1 /\ Rows[k].masks = 1

\* C16 witness: two different rasters on one grid, both contributing pixels
\* to the row, and one window and one mask made for the feature.
C16_Witness ==
    /\ driver.pc = "returned"
    /\ driver.call.rasters = [kind |-> "list", items |-> <<Raster(RasterA), Raster(RasterB)>>]
    /\ Len(driver.table) > 0
    /\ driver.table[1].counts = <<2, 3>>
    /\ driver.table[1].windows = 1
    /\ driver.table[1].masks = 1

\* the window locator returns the null sentinel for the geometry on every
\* supplied raster
NullWindowFor(call, geom) ==
    /\ geom.kind # "None"
    /\ SuppliedDatasets(call) # {}
    /\ \A ds \in SuppliedDatasets(call) :
          IsNull(getFeatureToRasterWindow(ds, GetEnvelope(geom)))

\* C17: a feature for which the window locator returns the null sentinel
\* raises nothing and gets a row with count_total = 0 and every statistic 0.
C17_NullWindowZeroRow ==
    /\ \A k \in 1 .. Len(Rows) :
          NullWindowFor(driver.call, driver.call.layer.features[k]) =>
              /\ Rows[k].count_total = 0
              /\ Rows[k].pixels = <<>>
              /\ \A key \in DOMAIN Rows[k].stats : Rows[k].stats[key] = 0
    /\ (driver.pc = "raised" /\ driver.at = "loop") =>
          ~NullWindowFor(driver.call, driver.feature.geom)

\* C17 witness: the first feature lies right of the raster and got the zero
\* row, the second feature was processed after it and has pixels.
C17_Witness ==
    /\ driver.pc = "returned"
    /\ Len(driver.table) = 2
    /\ driver.call.rasters = [kind |-> "single", raster |-> Raster(RasterA)]
    /\ driver.call.layer.features[1] = Polygon(<<Rect(20, 24, -3, 1)>>)
    /\ driver.table[1].count_total = 0
    /\ driver.table[1].windows = 1
    /\ driver.table[1].stats = [k \in DOMAIN driver.table[1].stats |-> 0]
    /\ driver.table[2].count_total = 2

\* C18: no row is ever produced for a feature whose geometry is neither a
\* polygon nor a multipolygon: the call raises at that feature.
C18_UnsupportedGeometryAborts ==
    \A k \in 1 .. Len(Rows) :
        driver.call.layer.features[k].kind \in {"POLYGON", "MULTIPOLYGON", "None"}

\* C21: when a call has exited, by returning or by raising, no feature
\* datasource and no raster dataset that it opened itself from a file path is
\* still open.
C21_OpenedAreReleased ==
    driver.pc \in {"returned", "raised"} => driver.opened = {}

\* a call whose configuration is in error: no rasters, no statistics, or a
\* unique field named that the layer does not have
ConfigurationError(call) ==
    \/ call.rasters.kind = "None"
    \/ call.rasters.kind = "list" /\ Len(call.rasters.items) = 0
    \/ Len(call.statistics) = 0
    \/ call.unique_field.kind = "str" /\ GetFieldIndex(call.unique_field.value) < 0

\* C23: a call with rasters None or an empty list, with no statistics, or with
\* a unique field name the layer does not have never reaches the feature loop
\* or returns; it raises, and where it has raised no row has been produced.
C23_ConfigurationErrorsFatal ==
    ConfigurationError(driver.call) =>
        /\ driver.pc \notin {"loop", "returned"}
        /\ driver.pc = "raised" => driver.table = <<>>
        /\ driver.pc = "statistics" => Len(driver.call.statistics) = 0
        /\ (driver.pc = "raised" /\ driver.at = "rasters") =>
              driver.error = "No rasters supplied"
        /\ (driver.pc = "raised" /\ driver.at = "statistics") =>
              driver.error = "No statistics supplied in parameters"

\* C23 witness: a call on a layer with a feature and a raster, naming the
\* unique field OBJECTID that the layer does not have, has raised at the field
\* lookup with no row.
C23_Witness ==
    /\ driver.pc = "raised"
    /\ driver.at = "fields"
    /\ driver.error = "Field (OBJECTID) does not exist"
    /\ driver.call.unique_field = Str("OBJECTID")
    /\ driver.call.statistics = <<"minimum">>
    /\ Len(driver.call.layer.features) = 1
    /\ driver.table = <<>>

\* the part of a row the caller sees: without the counters of calls made
Visible(row) ==
    [id |-> row.id, name |-> row.name, count_total |-> row.count_total,
     counts |-> row.counts, pixels |-> row.pixels, stats |-> row.stats]

\* the row of feature i as the per-raster path of lines 152-153 makes it
PerRasterRow(d, i) ==
    FeatureRow([call |-> d.call, rasters |-> d.rasters,
                bands |-> NormalisedBands(d.call.bands, Len(d.rasters)).bands,
                identical_rasters |-> FALSE,
                ignore_values |-> CorrectedIgnore(d.call.ignore_values)]
                   @@ FieldsOfCall(d),
               FeatureAt(d.call.layer, i))

\* C25: for rasters that all share one grid, every row the call returns (made
\* with one window and mask per feature) equals the row that
\* getPixelsByFeatureMask per raster gives for that feature, null-window
\* features included.
C25_SharedPathRefinesPerRaster ==
    (driver.pc = "returned" /\ IdenticalRasters(driver.rasters)) =>
        \A i \in 1 .. Len(driver.table) :
            /\ "row" \in DOMAIN PerRasterRow(driver, i)
            /\ Visible(driver.table[i]) = Visible(PerRasterRow(driver, i).row)

\* C25 witness: two different rasters on one grid, a polygon over pixels of
\* both and a polygon off the grid; the shared path made one window per
\* feature and read pixels of both rasters for the first feature.
C25_Witness ==
    /\ driver.pc = "returned"
    /\ driver.rasters = <<Raster(RasterA), Raster(RasterB)>>
    /\ driver.call.layer.features =
          <<Polygon(<<Rect(1, 5, -3, 1)>>), Polygon(<<Rect(20, 24, -3, 1)>>)>>
    /\ driver.table[1].windows = 1
    /\ driver.table[1].counts[1] > 0
    /\ driver.table[1].counts[2] > 0
    /\ driver.table[1].samples[1] # driver.table[1].samples[2]
    /\ driver.table[2].count_total = 0
    /\ PerRasterRow(driver, 1).row.windows = 2

\* C29: a call whose statistics list is not empty and holds recognized names
\* or aliases only (in any letter case, aliases of one statistic and repeated
\* names included) is not rejected by the check of the statistics names.
C29_RecognizedNamesAccepted ==
    (Len(driver.call.statistics) > 0 /\ ~HasUnrecognizedName(driver.call)) =>
        ~(driver.pc = "raised" /\ driver.at = "statistics")

----------------------------------------------------------------------------
(* lib/conversion.py featureToArray: calls on polygons and multipolygons *)

\* ring vertices lie 0 .. MaxRing units right of and below the window's origin
MaxRing == 4

\* the spans [lo, hi] of a ring on one axis, and the spans strictly inside one
Spans == {sp \in (0 .. MaxRing) \X (0 .. MaxRing) : sp[1] < sp[2]}
Inner(sp) == {t \in Spans : sp[1] < t[1] /\ t[2] < sp[2]}

\* the ring around the spans sx and sy, y growing downwards from the origin
RectOf(sx, sy) ==
    Rect(Origin[1] + sx[1], Origin[1] + sx[2], Origin[2] - sy[2], Origin[2] - sy[1])

SimplePolygons == {Polygon(<<RectOf(sx, sy)>>) : sx \in Spans, sy \in Spans}

\* polygons with one hole ring strictly inside the outer ring
HoledPolygons ==
    UNION {{Polygon(<<RectOf(sx, sy), RectOf(tx, ty)>>) : tx \in Inner(sx), ty \in Inner(sy)} :
             sx \in Spans, sy \in Spans}

\* polygons whose outer ring has the largest spans, with one hole
FramedPolygons ==
    {Polygon(<<RectOf(<<0, MaxRing>>, <<0, MaxRing>>), RectOf(tx, ty)>>) :
        tx \in Inner(<<0, MaxRing>>), ty \in Inner(<<0, MaxRing>>)}

\* multipolygons of a polygon with a hole and a polygon without, in both orders
MultiPolygons ==
    {MultiPolygon(<<a, b>>) : a \in FramedPolygons, b \in SimplePolygons}
        \cup {MultiPolygon(<<a, b>>) : a \in SimplePolygons, b \in FramedPolygons}

\* a polygon whose second ring is no linear ring
BrokenPolygon ==
    Polygon(<<RectOf(<<0, 3>>, <<0, 3>>), [name |-> "LINESTRING", points |-> <<>>]>>)

MaskGeometries ==
    SimplePolygons \cup HoledPolygons \cup MultiPolygons \cup {Point(2, 0), BrokenPolygon}

RasterizerInit ==
    /\ rasterizer \in
          [pc : {"call"}, feature : [fid : {0}, geom : MaskGeometries],
           origin : {Origin}, pixel_size : {<<1, -1>>, <<2, -2>>},
           resolution : {<<MaxRing, MaxRing - 1>>}]
    /\ locator = Idle
    /\ extractor = Idle
    /\ aggregator = Idle
    /\ driver = Idle
    /\ writer = Idle
    /\ dissolver = Idle
    /\ joiner = Idle

\* featureToArray(feature, origin, pixel_size, resolution)
FeatureToArray ==
    /\ rasterizer.pc = "call"
    /\ LET r == featureToArray(rasterizer.feature, rasterizer.origin,
                               rasterizer.pixel_size, rasterizer.resolution)
       IN  rasterizer' =
             IF "error" \in DOMAIN r
               THEN [rasterizer EXCEPT !.pc = "raised"] @@ [error |-> r.error]
               ELSE [rasterizer EXCEPT !.pc = "returned"] @@ [mask |-> r.mask]
    /\ UNCHANGED <<locator, extractor, aggregator, driver,
                   writer, dissolver, joiner>>

RasterizerNext == FeatureToArray

SpecRasterize == RasterizerInit /\ [][RasterizerNext]_vars

\* the mask of polygon g of the call's multipolygon, rasterized alone
MaskAlone(g) ==
    featureToArray([fid |-> 0, geom |-> rasterizer.feature.geom.polygons[g]],
                   rasterizer.origin, rasterizer.pixel_size, rasterizer.resolution).mask

\* C19: the mask of a multipolygon is the cell-wise OR of the masks of its
\* polygons rasterized alone, in whatever order the polygons come.
C19_MultiPolygonIsUnion ==
    (rasterizer.pc = "returned" /\ rasterizer.feature.geom.kind = "MULTIPOLYGON") =>
        \A y \in 1 .. rasterizer.resolution[2] : \A x \in 1 .. rasterizer.resolution[1] :
            rasterizer.mask[y][x] = 1 <=>
                \E g \in 1 .. Len(rasterizer.feature.geom.polygons) : MaskAlone(g)[y][x] = 1

\* the pixels (0-based column and row) a ring covers: those between its
\* vertices' extreme pixel coordinates, ends included
InFootprint(ring, x, y) ==
    LET cols == {(ring.points[k][1] - rasterizer.origin[1]) \div rasterizer.pixel_size[1] :
                    k \in 1 .. Len(ring.points)}
        rows == {(rasterizer.origin[2] - ring.points[k][2]) \div (-rasterizer.pixel_size[2]) :
                    k \in 1 .. Len(ring.points)}
    IN  /\ \E c \in cols : c <= x
        /\ \E c \in cols : c >= x
        /\ \E r \in rows : r <= y
        /\ \E r \in rows : r >= y

\* C20: for a polygon with one hole ring inside its outer ring the mask has
\* resolution-height rows of resolution-width cells, each 0 or 1: 0 on the
\* hole ring's pixels, 1 on the outer ring's other pixels, 0 elsewhere.
C20_HoleIsErased ==
    (/\ rasterizer.pc = "returned"
     /\ rasterizer.feature.geom.kind = "POLYGON"
     /\ Len(rasterizer.feature.geom.rings) = 2) =>
        LET rings == rasterizer.feature.geom.rings
            mask  == rasterizer.mask
        IN  /\ Len(mask) = rasterizer.resolution[2]
            /\ \A y \in 1 .. Len(mask) :
                  /\ Len(mask[y]) = rasterizer.resolution[1]
                  /\ \A x \in 1 .. Len(mask[y]) :
                        mask[y][x] =
                            IF InFootprint(rings[2], x - 1, y - 1) THEN 0
                            ELSE IF InFootprint(rings[1], x - 1, y - 1) THEN 1
                            ELSE 0

\* C20 witness: an outer ring over columns 0 .. 3 and rows 0 .. 3 (the last
\* row outside the window) with a hole over columns 1 .. 2 and rows 1 .. 2.
C20_Witness ==
    /\ rasterizer.pc = "returned"
    /\ rasterizer.pixel_size = <<1, -1>>
    /\ rasterizer.feature.geom =
          Polygon(<<RectOf(<<0, 3>>, <<0, 3>>), RectOf(<<1, 2>>, <<1, 2>>)>>)
    /\ rasterizer.mask = << <<1, 1, 1, 1>>, <<1, 0, 0, 1>>, <<1, 0, 0, 1>> >>

----------------------------------------------------------------------------
(* lib/join.py intersect.  A polygon is given by the set of cells it        *)
(* covers; two geometries intersect when they share a cell.                 *)

\* a layer holds at most MaxJoin features; a feature is read at most
\* MaxVisits times by the outer loop
MaxJoin == 2
MaxVisits == 2

\* a polygon over the cells S
Area(S) == [kind |-> "POLYGON", cells |-> S]

\* ogr.Geometry.Intersects
Intersects(g, h) == g.cells \cap h.cells # {}

\* the features' geometries: None, or a polygon
JoinGeometries == {NoGeometry, Area({1}), Area({2}), Area({1, 2})}

JoinLayers == SeqsUpTo(JoinGeometries, MaxJoin)

\* ogr.Layer.GetNextFeature on a layer of n features with the read cursor at
\* c: the number of the feature read (0 for None) and the cursor afterwards
GetNextFeature(n, c) ==
    IF c < n THEN [feat |-> c + 1, cursor |-> c + 1] ELSE [feat |-> 0, cursor |-> c]

\* the cursors after the layer `which` has its cursor set to c; one ogr.Layer
\* given as both datasources has one cursor
SetCursor(cursors, same, which, c) ==
    IF same THEN [input |-> c, join |-> c] ELSE [cursors EXCEPT ![which] = c]

\* the calls: two layers, or one layer given as input and as join datasource
JoinerInit ==
    /\ joiner \in
          {[pc |-> "call", input |-> c.input, join |-> IF c.same THEN c.input ELSE c.join,
            same |-> c.same] :
             c \in {x \in [input : JoinLayers, join : JoinLayers, same : BOOLEAN] :
                      x.same => x.join = <<>>}}
    /\ locator = Idle
    /\ extractor = Idle
    /\ aggregator = Idle
    /\ driver = Idle
    /\ rasterizer = Idle
    /\ writer = Idle
    /\ dissolver = Idle

\* lines 28-42: the layers are looked up, the map is empty, and the first
\* input feature is read
BeginJoin ==
    /\ joiner.pc = "call"
    /\ joiner' =
          [pc |-> "outer", input |-> joiner.input, join |-> joiner.join, same |-> joiner.same,
           feat |-> GetNextFeature(Len(joiner.input), 0).feat,
           jfeat |-> 0,
           cursors |-> SetCursor([input |-> 0, join |-> 0], joiner.same, "input",
                                 GetNextFeature(Len(joiner.input), 0).cursor),
           join_map |-> [id \in {} |-> <<>>],
           visits |-> [i \in 1 .. Len(joiner.input) |-> 0]]
    /\ UNCHANGED <<locator, extractor, aggregator, driver, rasterizer, writer, dissolver>>

\* lines 43-50 and 58, with g the cursors after join_layer.SetNextByIndex(0):
\* a feature with a geometry gets an empty entry and the first join feature
\* is read; without a geometry the next input feature is read
AfterOuter(j, g) ==
    IF j.input[j.feat] # NoGeometry
      THEN [j EXCEPT !.pc = "inner",
                     !.visits[j.feat] = @ + 1,
                     !.join_map = [id \in DOMAIN @ \cup {j.feat - 1} |-> <<>>]
                                      @@ j.join_map,
                     !.jfeat = GetNextFeature(Len(j.join), g.join).feat,
                     !.cursors = SetCursor(g, j.same, "join",
                                           GetNextFeature(Len(j.join), g.join).cursor)]
      ELSE [j EXCEPT !.visits[j.feat] = @ + 1,
                     !.feat = GetNextFeature(Len(j.input), j.cursors.input).feat,
                     !.cursors = SetCursor(j.cursors, j.same, "input",
                                           GetNextFeature(Len(j.input), j.cursors.input).cursor)]

OuterStep ==
    /\ joiner.pc = "outer"
    /\ joiner.feat # 0
    /\ joiner.visits[joiner.feat] < MaxVisits
    /\ joiner' = AfterOuter(joiner, SetCursor(joiner.cursors, joiner.same, "join", 0))
    /\ UNCHANGED <<locator, extractor, aggregator, driver, rasterizer, writer, dissolver>>

\* lines 51-55: one join feature is tested and the next one read
InnerStep ==
    /\ joiner.pc = "inner"
    /\ joiner.jfeat # 0
    /\ joiner' =
          [joiner EXCEPT
             !.join_map[joiner.feat - 1] =
                 IF joiner.join[joiner.jfeat] # NoGeometry
                      /\ Intersects(joiner.input[joiner.feat], joiner.join[joiner.jfeat])
                   THEN Append(@, joiner.jfeat - 1) ELSE @,
             !.jfeat = GetNextFeature(Len(joiner.join), joiner.cursors.join).feat,
             !.cursors = SetCursor(joiner.cursors, joiner.same, "join",
                                   GetNextFeature(Len(joiner.join), joiner.cursors.join).cursor)]
    /\ UNCHANGED <<locator, extractor, aggregator, driver, rasterizer, writer, dissolver>>

\* lines 56-58, with g the cursors after join_layer.SetNextByIndex(0): the
\* next input feature is read
AfterInner(j, g) ==
    [j EXCEPT !.pc = "outer",
              !.feat = GetNextFeature(Len(j.input), g.input).feat,
              !.cursors = SetCursor(g, j.same, "input",
                                    GetNextFeature(Len(j.input), g.input).cursor)]

EndInner ==
    /\ joiner.pc = "inner"
    /\ joiner.jfeat = 0
    /\ joiner' = AfterInner(joiner, SetCursor(joiner.cursors, joiner.same, "join", 0))
    /\ UNCHANGED <<locator, extractor, aggregator, driver, rasterizer, writer, dissolver>>

\* lines 59-62
EndJoin ==
    /\ joiner.pc = "outer"
    /\ joiner.feat = 0
    /\ joiner' = [joiner EXCEPT !.pc = "returned",
                                !.cursors = SetCursor(@, joiner.same, "input", 0)]
    /\ UNCHANGED <<locator, extractor, aggregator, driver, rasterizer, writer, dissolver>>

JoinerNext == BeginJoin \/ OuterStep \/ InnerStep \/ EndInner \/ EndJoin

SpecJoin == JoinerInit /\ [][JoinerNext]_vars

\* C30: the outer loop of join.intersect reads no input feature twice, and a
\* call that has returned has read every input feature once; this also when
\* one layer is the input and the join datasource.
C30_EachFeatureOnce ==
    joiner.pc \in {"outer", "inner", "returned"} =>
        /\ \A i \in 1 .. Len(joiner.input) : joiner.visits[i] <= 1
        /\ joiner.pc = "returned" =>
              \A i \in 1 .. Len(joiner.input) : joiner.visits[i] = 1

----------------------------------------------------------------------------
(* lib/dissolve.py singlepart and onField *)

\* a layer holds at most MaxParts features
MaxParts == 3

\* the datasource at the output path: none, or one that was there before
Absent == [exists |-> FALSE]
Existing == [exists |-> TRUE, layer_name |-> "old", features |-> <<>>]

\* lines 148-151 (features.py 103-106): the exception for an existing path
\* that may not be overwritten, otherwise the path with nothing on it and the
\* driver calls made
RemoveExistingAlways(disk, overwrite) ==
    [disk |-> Absent, log |-> IF disk.exists THEN <<"DeleteDataSource">> ELSE <<>>]

RemoveExisting(disk, overwrite) ==
    IF disk.exists /\ ~overwrite
      THEN [error |-> "already exists (to overwrite, set overwrite=True)"]
      ELSE [disk |-> Absent, log |-> IF disk.exists THEN <<"DeleteDataSource">> ELSE <<>>]

\* the geometries of the features to dissolve, and the layers: a feature has a
\* geometry and a value of the field dissolved on
DissolveGeometries ==
    {Area({1}), Area({2}), Area({1, 2}), MultiPolygon(<<Area({2}), Area({3})>>)}

DissolveLayers(geometries, values) ==
    SeqsUpTo([geom : geometries, value : values], MaxParts)

DissolveCalls ==
    [function : {"singlepart"}, singlepart : {TRUE},
     layer : DissolveLayers(DissolveGeometries \cup {Point(0, 0)}, {"a"}),
     disk : {Absent, Existing}, overwrite : {FALSE}]
    \cup
    [function : {"onField"}, singlepart : BOOLEAN,
     layer : DissolveLayers(DissolveGeometries \ {Area({2})}, {"a", "b"}),
     disk : {Existing}, overwrite : {TRUE}]

\* lines 89-99 (225-235): the polygons of feature number f, each with the
\* feature's number and its own number in the feature
PolygonsOf(layer, f) ==
    IF layer[f + 1].geom.kind = "POLYGON"
      THEN <<[id |-> <<f, 0>>, cells |-> layer[f + 1].geom.cells]>>
      ELSE [p \in 1 .. Len(layer[f + 1].geom.polygons) |->
               [id |-> <<f, p - 1>>, cells |-> layer[f + 1].geom.polygons[p].cells]]

\* the polygons of the features numbered fids[1 .. n], in order
RECURSIVE Polygons(_, _, _)
Polygons(layer, fids, n) ==
    IF n = 0 THEN <<>> ELSE Polygons(layer, fids, n - 1) \o PolygonsOf(layer, fids[n])

\* lines 83-105 (224-238): the polygons of the features fids, or the
\* exception raised; `del geom` fails when no feature was read
Collected(layer, fids) ==
    IF \E k \in 1 .. Len(fids) :
          layer[fids[k] + 1].geom.kind \notin {"POLYGON", "MULTIPOLYGON"}
      THEN [error |-> "Tool currently only supports polygons or multipolygons"]
    ELSE IF fids = <<>> THEN [error |-> "UnboundLocalError"]
    ELSE [geoms |-> Polygons(layer, fids, Len(fids))]

\* onField lines 191-219, with groups the groups of the features before
\* number f: f joins the first group whose features have its value, or
\* starts a group
GroupedWith(layer, f, groups) ==
    IF \E i \in 1 .. Len(groups) : layer[groups[i][1] + 1].value = layer[f + 1].value
      THEN [groups EXCEPT
              ![CHOOSE i \in 1 .. Len(groups) :
                   layer[groups[i][1] + 1].value = layer[f + 1].value] = Append(@, f)]
      ELSE Append(groups, <<f>>)

RECURSIVE FeatureGroups(_, _)
FeatureGroups(layer, n) ==
    IF n = 0 THEN <<>> ELSE GroupedWith(layer, n - 1, FeatureGroups(layer, n - 1))

\* lines 138-141 (271-276): the union of a group of polygons and its size
Unioned(geoms, group, g) ==
    [cells |-> UNION {geoms[group[k] + 1].cells : k \in 1 .. Len(group)},
     members |-> [k \in 1 .. Len(group) |-> geoms[group[k] + 1].id],
     g |-> g, count |-> Len(group)]

\* line 134 (266): the scan starts over after a capture
NextJNoRescan(i, j) == j

NextJ(i, j) == i

DissolverInit ==
    /\ dissolver \in [pc : {"call"}, call : DissolveCalls]
    /\ locator = Idle
    /\ extractor = Idle
    /\ aggregator = Idle
    /\ driver = Idle
    /\ rasterizer = Idle
    /\ writer = Idle
    /\ joiner = Idle

\* the grouping loop's variables before its first iteration (lines 110-114,
\* 243-246)
Grouping(d, g, todo, geoms, unioned_geoms) ==
    [pc |-> "seed", call |-> d.call, g |-> g, todo |-> todo, geoms |-> geoms,
     i |-> -1, j |-> -1, group |-> <<>>, gids_processed |-> <<>>, groups |-> <<>>,
     unioned_geoms |-> unioned_geoms, scans |-> d.scans]

\* singlepart lines 83-114; onField lines 183-221
Collect ==
    /\ dissolver.pc = "call"
    /\ LET layer == dissolver.call.layer
           c == Collected(layer, [k \in 1 .. Len(layer) |-> k - 1])
       IN  dissolver' =
             IF dissolver.call.function = "onField"
               THEN [pc |-> "group", call |-> dissolver.call, g |-> -1,
                     todo |-> FeatureGroups(layer, Len(layer)),
                     unioned_geoms |-> <<>>, scans |-> 0]
             ELSE IF "error" \in DOMAIN c
               THEN [pc |-> "raised", call |-> dissolver.call, error |-> c.error,
                     disk |-> dissolver.call.disk]
             ELSE Grouping([call |-> dissolver.call, scans |-> 0], 0, <<>>, c.geoms, <<>>)
    /\ UNCHANGED <<locator, extractor, aggregator, driver, rasterizer, writer, joiner>>

\* onField lines 223-246: the polygons of the next group of features; without
\* singlepart they are one group (lines 240-241, 271-276)
OpenGroup ==
    /\ dissolver.pc = "group"
    /\ dissolver.todo # <<>>
    /\ LET c == Collected(dissolver.call.layer, Head(dissolver.todo))
           g == dissolver.g + 1
       IN  dissolver' =
             IF "error" \in DOMAIN c
               THEN [pc |-> "raised", call |-> dissolver.call, error |-> c.error,
                     disk |-> dissolver.call.disk]
             ELSE IF ~dissolver.call.singlepart
               THEN [dissolver EXCEPT
                       !.g = g, !.todo = Tail(@),
                       !.unioned_geoms =
                           Append(@, Unioned(c.geoms, [k \in 1 .. Len(c.geoms) |-> k - 1], g))]
             ELSE Grouping(dissolver, g, Tail(dissolver.todo), c.geoms,
                           dissolver.unioned_geoms)
    /\ UNCHANGED <<locator, extractor, aggregator, driver, rasterizer, writer, joiner>>

\* lines 115-123 (247-255): the next polygon not yet in a group starts one;
\* after the last polygon the loop ends (onField: lines 271-277)
Seed ==
    /\ dissolver.pc = "seed"
    /\ LET i == dissolver.i + 1
       IN  dissolver' =
             IF i = Len(dissolver.geoms)
               THEN IF dissolver.call.function = "onField"
                      THEN [pc |-> "group", call |-> dissolver.call, g |-> dissolver.g,
                            todo |-> dissolver.todo,
                            unioned_geoms |-> dissolver.unioned_geoms \o dissolver.groups,
                            scans |-> dissolver.scans]
                      ELSE [pc |-> "write", call |-> dissolver.call,
                            unioned_geoms |-> dissolver.unioned_geoms,
                            scans |-> dissolver.scans]
             ELSE IF \E k \in 1 .. Len(dissolver.gids_processed) :
                        dissolver.gids_processed[k] = i
               THEN [dissolver EXCEPT !.i = i]
             ELSE [dissolver EXCEPT !.pc = "scan", !.i = i, !.j = i, !.group = <<i>>,
                                    !.gids_processed = Append(@, i)]
    /\ UNCHANGED <<locator, extractor, aggregator, driver, rasterizer, writer, joiner>>

\* lines 124-143 (256-268): one iteration of the scan for polygons that
\* intersect a polygon of the group; past the last polygon the group is closed
Scan ==
    /\ dissolver.pc = "scan"
    /\ LET j == dissolver.j + 1
           d == [dissolver EXCEPT !.scans = @ + 1]
       IN  dissolver' =
             IF j >= Len(d.geoms)
               THEN IF d.call.function = "onField"
                      THEN [d EXCEPT !.pc = "seed",
                                     !.groups = Append(@, Unioned(d.geoms, d.group, d.g))]
                      ELSE [d EXCEPT !.pc = "seed",
                                     !.unioned_geoms =
                                         Append(@, Unioned(d.geoms, d.group, d.g))]
             ELSE IF \E k \in 1 .. Len(d.gids_processed) : d.gids_processed[k] = j
               THEN [d EXCEPT !.j = j]
             ELSE IF \E k \in 1 .. Len(d.group) :
                        Intersects(d.geoms[j + 1], d.geoms[d.group[k] + 1])
               THEN [d EXCEPT !.group = Append(@, j),
                              !.gids_processed = Append(@, j),
                              !.j = NextJ(d.i, j)]
             ELSE [d EXCEPT !.j = j]
    /\ UNCHANGED <<locator, extractor, aggregator, driver, rasterizer, writer, joiner>>

\* lines 146-164 (282-305): the output datasource gets one feature per group
WriteGroups ==
    /\ \/ dissolver.pc = "write"
       \/ dissolver.pc = "group" /\ dissolver.todo = <<>>
    /\ LET r == RemoveExisting(dissolver.call.disk, dissolver.call.overwrite)
       IN  dissolver' =
             IF "error" \in DOMAIN r
               THEN [pc |-> "raised", call |-> dissolver.call, error |-> r.error,
                     disk |-> dissolver.call.disk]
               ELSE [pc |-> "returned", call |-> dissolver.call,
                     scans |-> dissolver.scans,
                     disk |-> [exists |-> TRUE, layer_name |-> dissolver.call.function,
                               features |-> dissolver.unioned_geoms]]
    /\ UNCHANGED <<locator, extractor, aggregator, driver, rasterizer, writer, joiner>>

DissolverNext == Collect \/ OpenGroup \/ Seed \/ Scan \/ WriteGroups

SpecDissolve == DissolverInit /\ [][DissolverNext]_vars

\* the polygons of the call's layer, each with its field value
InputPolygons(call) ==
    UNION {{[id |-> PolygonsOf(call.layer, f - 1)[p].id,
             cells |-> PolygonsOf(call.layer, f - 1)[p].cells,
             value |-> IF call.function = "onField" THEN call.layer[f].value ELSE "a"] :
               p \in 1 .. Len(PolygonsOf(call.layer, f - 1))} :
           f \in 1 .. Len(call.layer)}

\* the polygons of P that a chain of pairwise intersecting polygons of P
\* links to one of S
RECURSIVE Component(_, _)
Component(S, P) ==
    IF {q \in P : \E r \in S : Intersects(q, r)} \subseteq S THEN S
    ELSE Component(S \cup {q \in P : \E r \in S : Intersects(q, r)}, P)

\* the output features that hold the polygon p
FeaturesOf(features, p) ==
    {k \in 1 .. Len(features) :
        \E m \in 1 .. Len(features[k].members) : features[k].members[m] = p.id}

\* C27: singlepart, and onField with singlepart=True within each group of
\* equal field values, puts every input polygon into exactly one output
\* feature, two polygons into the same one exactly when a chain of pairwise
\* intersecting polygons links them, and FEAT_COUNT is the number of polygons
\* of the feature; the grouping loop makes at most n * n scans for n polygons.
C27_ConnectedComponents ==
    /\ ("scans" \in DOMAIN dissolver /\ dissolver.call.singlepart) =>
          dissolver.scans <= Cardinality(InputPolygons(dissolver.call))
                                * Cardinality(InputPolygons(dissolver.call))
    /\ (dissolver.pc = "returned" /\ dissolver.call.singlepart) =>
          LET P == InputPolygons(dissolver.call)
              O == dissolver.disk.features
          IN  /\ \A p \in P : Cardinality(FeaturesOf(O, p)) = 1
              /\ \A p, q \in P :
                    (FeaturesOf(O, p) = FeaturesOf(O, q))
                        <=> q \in Component({p}, {r \in P : r.value = p.value})
              /\ \A k \in 1 .. Len(O) :
                    /\ O[k].count = Len(O[k].members)
                    /\ O[k].count = Cardinality({p \in P : k \in FeaturesOf(O, p)})

\* C27 witness: the polygons over cell 1, over cell 2 and over cells 1 and 2,
\* in this order: the second one is linked to the first only through the
\* third, and all three are in one output feature with FEAT_COUNT 3.
C27_Witness ==
    /\ dissolver.pc = "returned"
    /\ dissolver.call.function = "singlepart"
    /\ dissolver.call.layer =
          <<[geom |-> Area({1}), value |-> "a"], [geom |-> Area({2}), value |-> "a"],
            [geom |-> Area({1, 2}), value |-> "a"]>>
    /\ Len(dissolver.disk.features) = 1
    /\ dissolver.disk.features[1].count = 3
    /\ dissolver.disk.features[1].members = <<<<0, 0>>, <<2, 0>>, <<1, 0>>>>

----------------------------------------------------------------------------
(* The writers of a datasource at an output path: features.py              *)
(* copyFeatureDataSourceAsEmpty and createFeatureDataSource, and            *)
(* lib/dissolve.py singular                                                 *)

\* the calls: copy_datasource is a layer, a datasource or a path and the
\* layer copied has some fields; a datasource is created with or without
\* fields; the layers dissolved are those of singlepart
WriterCalls ==
    [function : {"copyFeatureDataSourceAsEmpty"}, source : FeatureDataArguments,
     fields : SeqsUpTo({"ID"}, 2), disk : {Absent, Existing}, overwrite : BOOLEAN]
    \cup
    [function : {"createFeatureDataSource"}, source : {"None"},
     fields : SeqsUpTo({"ID"}, 2), disk : {Absent, Existing}, overwrite : BOOLEAN]
    \cup
    [function : {"singular"}, source : {"Layer"},
     layer : DissolveLayers(DissolveGeometries \cup {Point(0, 0)}, {"a"}),
     disk : {Absent, Existing}, overwrite : BOOLEAN]

\* createFeatureDataSource does nothing before it looks at the output path
WriterInit ==
    /\ writer \in
          {[pc |-> IF c.function = "createFeatureDataSource" THEN "path" ELSE "call",
            call |-> c, disk |-> c.disk, log |-> <<>>] : c \in WriterCalls}
    /\ locator = Idle
    /\ extractor = Idle
    /\ aggregator = Idle
    /\ driver = Idle
    /\ rasterizer = Idle
    /\ dissolver = Idle
    /\ joiner = Idle

\* features.py _getLayer with allow_path (lines 11-24): line 20 names the
\* module `features`, which features.py does not import
_getLayer(datasource) ==
    IF datasource \in {"DataSource", "Layer"} THEN [datasource |-> None]
    ELSE [error |-> "NameError"]

\* dissolve.py singular lines 19-53: the union of all polygons
Dissolved(c) ==
    IF "error" \in DOMAIN c THEN c
    ELSE [content |-> <<Unioned(c.geoms, [k \in 1 .. Len(c.geoms) |-> k - 1], 0)>>]

\* what the call writes, or the exception raised before the output path is
\* looked at: features.py line 101, dissolve.py lines 19-53
Prepared(call) ==
    IF call.function = "singular"
      THEN Dissolved(Collected(call.layer, [k \in 1 .. Len(call.layer) |-> k - 1]))
    ELSE IF "error" \in DOMAIN _getLayer(call.source) THEN _getLayer(call.source)
    ELSE [content |-> <<>>]

Prepare ==
    /\ writer.pc = "call"
    /\ writer' =
          IF "error" \in DOMAIN Prepared(writer.call)
            THEN [writer EXCEPT !.pc = "raised"]
                    @@ [error |-> Prepared(writer.call).error]
            ELSE [writer EXCEPT !.pc = "path"]
    /\ UNCHANGED <<locator, extractor, aggregator, driver, rasterizer, dissolver, joiner>>

\* features.py lines 102-106, 139-143; dissolve.py lines 55-59
CheckPath ==
    /\ writer.pc = "path"
    /\ LET r == RemoveExisting(writer.disk, writer.call.overwrite)
       IN  writer' =
             IF "error" \in DOMAIN r
               THEN [writer EXCEPT !.pc = "raised"] @@ [error |-> r.error]
               ELSE [writer EXCEPT !.pc = "create", !.disk = r.disk, !.log = @ \o r.log]
    /\ UNCHANGED <<locator, extractor, aggregator, driver, rasterizer, dissolver, joiner>>

\* features.py lines 108-123, 145-152; dissolve.py lines 60-69
CreateDataSource ==
    /\ writer.pc = "create"
    /\ writer' =
          [writer EXCEPT
             !.pc = "returned",
             !.log = Append(@, "CreateDataSource"),
             !.disk = [exists |-> TRUE, layer_name |-> writer.call.function,
                       features |->
                          IF writer.call.function = "singular"
                            THEN Prepared(writer.call).content ELSE <<>>]]
    /\ UNCHANGED <<locator, extractor, aggregator, driver, rasterizer, dissolver, joiner>>

WriterNext == Prepare \/ CheckPath \/ CreateDataSource

SpecWrite == WriterInit /\ [][WriterNext]_vars

\* C24: when the output path holds a datasource and overwrite is False, the
\* call never deletes or creates anything and the datasource stays as it was
\* (the call raises); when overwrite is True the datasource has been deleted
\* when the new one is created.
C24_OverwriteContract ==
    /\ (writer.pc # "idle" /\ writer.call.disk.exists /\ ~writer.call.overwrite) =>
          /\ writer.pc \in {"call", "path", "raised"}
          /\ writer.disk = writer.call.disk
          /\ writer.log = <<>>
    /\ (writer.pc # "idle" /\ writer.call.disk.exists /\ writer.call.overwrite) =>
          /\ writer.pc = "create" =>
                writer.disk = Absent /\ writer.log = <<"DeleteDataSource">>
          /\ writer.pc = "returned" =>
                /\ writer.log = <<"DeleteDataSource", "CreateDataSource">>
                /\ writer.disk.exists
                /\ writer.disk # writer.call.disk

\* C24 witness: dissolve.singular on a layer of one polygon, with a
\* datasource at the output path and overwrite False, has raised at the check
\* of the path and the datasource is as before.
C24_Witness ==
    /\ writer.pc = "raised"
    /\ writer.call.function = "singular"
    /\ Len(writer.call.layer) = 1
    /\ writer.call.disk = Existing
    /\ ~writer.call.overwrite
    /\ writer.error = "already exists (to overwrite, set overwrite=True)"
    /\ writer.disk = Existing

============================================================================
